---- MODULE Spec2Model ----
(***************************************************************************)
(* A model of NPUCore's process execution core: the per-CPU dispatcher     *)
(* (os/src/task/processor.rs), the multi-level run queues                  *)
(* (os/src/task/manager.rs, sched_class.rs, cfs_scheduler.rs), suspension  *)
(* and exit (os/src/task/mod.rs) and the futex and timeout wait queues     *)
(* (os/src/task/threads.rs, manager.rs); the physical frame allocator      *)
(* (os/src/mm/frame_allocator.rs) with the callers that free frames by     *)
(* number (os/src/drivers/block/virtio_blk.rs, os/src/fs/mod.rs); and the  *)
(* system call entry (os/src/syscall/mod.rs, dispatch.rs); the locks of    *)
(* the scheduler and the order they are taken in; the OOM reclaim          *)
(* (manager.rs do_oom) and the bitmap frame allocator                      *)
(* (os/src/mm/bitmap_alloc.rs).                                            *)
(*                                                                         *)
(* Granularity.  A step of the model is a piece of kernel code that runs   *)
(* on one hart under locks it holds throughout (interrupts are off in all  *)
(* of them), so harts interleave exactly where the code drops its locks.   *)
(* PROCESSORS[c] is only ever locked by hart c, so its fields are private  *)
(* to the hart.  In run_tasks the stores to the atomics running_on_cpu and *)
(* on_cpu, the read of the pending task's status and the CAS are steps of  *)
(* their own: other harts read and write these fields without the lock.    *)
(***************************************************************************)
EXTENDS Integers, Sequences, FiniteSets, TLC

\* ------------------------------------------------------------------ bounds
\* Number of tasks (pids 0..NTASK-1; pid 0 is initproc).
NTASK == 3
\* The clock (get_time_ns / TimeSpec::now) runs from 1 to MaxTime.
MaxTime == 2
\* CfsRunQueue.nr_running / RtRunQueue.nr_running are capped here.
MaxNr == 3
\* The futex wait queues and the interruptible queues hold at most MaxQueue
\* entries.
MaxQueue == 2
\* A task that has not yet accumulated runtime is placed as a new entity
\* (half a latency period behind min_vruntime) at most MaxPlace times.
MaxPlace == 2
\* Physical memory: the kernel image occupies the frames below EKernel, the
\* frame allocator manages the frames from EKernel up to MemoryEnd.
EKernel == 1
MemoryEnd == 4
\* A DMA buffer shared with the block device has at most MaxPages pages.
MaxPages == 2
\* QUEUE_FRAMES holds at most MaxQueueFrames frames.
MaxQueueFrames == 3

\* --------------------------------------------------------------- constants
MAX_CPU_NUM == 2
TASK_NOT_RUNNING == -1
NoTask == -1
MAX_RT_PRIO == 99
NICE_0_WEIGHT == 1024
SCHED_LATENCY_NS == 6000000
RR_TIMESLICE_NS == 100000000
TICKS_PER_SEC == 25
NSEC_PER_SEC == 1000000000

Tasks == 0 .. (NTASK - 1)
CPUs == 0 .. (MAX_CPU_NUM - 1)
\* The three words of user memory used as futex words, and their values.
Addrs == {"a", "b"}
Vals == {0, 1, 2}
\* RT priority levels any modelled task can have (every other level of the
\* 100-entry array stays empty: enqueue indexes it by entity.rt_priority).
RtPrios == {10, 50}
INITPROC == 0

VARIABLES
    tcb,        \* [Tasks -> TaskControlBlock]: atomics, inner fields, identity
    mgr,        \* TASK_MANAGERS: [CPUs -> TaskManager]
    cpu,        \* PROCESSORS plus each hart's position and locals
    futex,      \* Futex.inner: [Addrs -> WaitQueue] (an absent key is <<>>)
    word,       \* user memory: [Addrs -> Vals]
    timeouts,   \* TIMEOUT_WAITQUEUE: set of [task, timeout]
    now,        \* the clock
    prog,       \* the user program each task still has to run
    obs,        \* [Tasks -> what the task's last futex_wait or syscall() returned]
    panic,      \* "" or the panic message that halted the kernel
    allocator,  \* FRAME_ALLOCATOR: the StackFrameAllocator
    held,       \* [Frames -> number of live FrameTracker handles on the frame]
    queue_frames, \* QUEUE_FRAMES of the virtio block driver: the ppns held
    shared,     \* the DMA buffers the driver has shared: set of [pa, pages]
    build,      \* the build: option_env!("MODE") and the oom_handler feature
    hart,       \* each hart at the level of its lock and interrupt operations
    owner,      \* [Locks -> the hart that holds the spin lock, or NoHart]
    active_tracker, \* TaskManager.active_tracker of each CPU: the pids marked
    cleaned,    \* the tasks the last do_oom cleaned: set of [task, clean]
    bitmap_allocator \* a BitmapFrameAllocator

\* The frame allocator and its users.
memvars == <<allocator, held, queue_frames, shared, build>>

\* The spin locks and the interrupt flag of each hart.
lockvars == <<hart, owner>>

\* The system-wide reclaim of the build with the oom_handler feature.
oomvars == <<active_tracker, cleaned>>

\* What the dispatcher, the wait queues and the stack allocator never touch.
othervars == <<lockvars, oomvars, bitmap_allocator>>

vars == <<tcb, mgr, cpu, futex, word, timeouts, now, prog, obs, panic, memvars,
          othervars>>

\* ----------------------------------------------------------------- helpers
Max(a, b) == IF a >= b THEN a ELSE b
Min(a, b) == IF a <= b THEN a ELSE b
SatSub(a, b) == IF a >= b THEN a - b ELSE 0
InSeq(s, x) == \E i \in 1 .. Len(s) : s[i] = x
Count(s, x) == Cardinality({i \in 1 .. Len(s) : s[i] = x})
\* VecDeque::retain(|y| y != x)
Without(s, x) == SelectSeq(s, LAMBDA y : y # x)

\* --------------------------------------------------------- scheduling class
\* get_sched_class
get_sched_class(e) ==
    CASE e.policy \in {"Fifo", "RoundRobin"} -> "Rt"
      [] e.policy = "Idle" -> "Idle"
      [] OTHER -> "Cfs"

\* SchedEntity::set_policy, applied to a record that has the entity's fields
set_policy(e, policy, priority) ==
    [e EXCEPT !.policy = policy,
              !.rt_priority = IF policy \in {"Fifo", "RoundRobin"}
                              THEN Max(Min(priority, MAX_RT_PRIO), 1) ELSE 0]

\* SchedEntity::calc_delta_vruntime for a nice-0 entity (weight ==
\* NICE_0_WEIGHT): every task inherits nice 0 from initproc.
calc_delta_vruntime(e, delta_exec) == delta_exec

\* SchedEntity::update_runtime
update_runtime(e, t_now) ==
    IF e.exec_start = 0 THEN e
    ELSE LET delta_exec == SatSub(t_now, e.exec_start) IN
         [e EXCEPT !.exec_start = t_now,
                   !.sum_exec_runtime = @ + delta_exec,
                   !.vruntime = @ + calc_delta_vruntime(e, delta_exec)]

\* ------------------------------------------------------------- RT run queue
\* RtRunQueue::enqueue
RtEnqueue(m, t, e) ==
    LET prio == Min(e.rt_priority, MAX_RT_PRIO) IN
    IF prio = 0 THEN m
    ELSE [m EXCEPT !.rt_queues[prio] = Append(@, t),
                   !.rt_bitmap = @ \cup {prio},
                   !.rt_nr = @ + 1]

\* RtRunQueue::pick_next: [m, task]
RtPickNext(m) ==
    IF m.rt_bitmap = {} THEN [m |-> m, task |-> NoTask]
    ELSE LET hp == CHOOSE p \in m.rt_bitmap : \A q \in m.rt_bitmap : q <= p
             queue == m.rt_queues[hp]
         IN IF queue = <<>> THEN [m |-> m, task |-> NoTask]
            ELSE [m |-> [m EXCEPT !.rt_queues[hp] = Tail(queue),
                                  !.rt_nr = SatSub(@, 1),
                                  !.rt_bitmap = IF Tail(queue) = <<>>
                                                THEN @ \ {hp} ELSE @],
                  task |-> Head(queue)]

\* ------------------------------------------------------------ CFS run queue
\* The BTreeMap<RunQueueKey, Arc<TCB>> is its key set: a key <<vruntime, tid>>
\* maps to the task whose pid is tid.  RunQueueKey::cmp
KeyLess(k1, k2) == k1[1] < k2[1] \/ (k1[1] = k2[1] /\ k1[2] < k2[2])

\* CfsRunQueue::place_entity: the entity's new vruntime
place_entity(m, e, initial) ==
    LET thresh == SCHED_LATENCY_NS \div 2
        vruntime == IF initial THEN m.min_vruntime + thresh ELSE m.min_vruntime
    IN Max(e.vruntime, vruntime)

\* CfsRunQueue::enqueue: [m, vruntime]
CfsEnqueue(m, t, e, is_new) ==
    LET v == place_entity(m, e, is_new) IN
    [m |-> [m EXCEPT !.cfs_tasks = @ \cup {<<v, t>>},
                     !.total_weight = @ + e.weight,
                     !.cfs_nr = @ + 1],
     vruntime |-> v]

\* CfsRunQueue::pick_next: [m, task]
CfsPickNext(m) ==
    IF m.cfs_tasks = {} THEN [m |-> m, task |-> NoTask]
    ELSE LET key == CHOOSE k \in m.cfs_tasks :
                        \A k2 \in m.cfs_tasks \ {k} : KeyLess(k, k2)
         IN [m |-> [m EXCEPT !.cfs_tasks = @ \ {key},
                             !.min_vruntime = Max(@, key[1]),
                             !.total_weight = SatSub(@, NICE_0_WEIGHT),
                             !.cfs_nr = SatSub(@, 1)],
             task |-> key[2]]

\* ----------------------------------------------------------- idle run queue
\* IdleRunQueue::pick_next: [m, task]
IdlePickNext(m) ==
    IF m.idle_queue = <<>> THEN [m |-> m, task |-> NoTask]
    ELSE [m |-> [m EXCEPT !.idle_queue = Tail(@)], task |-> Head(m.idle_queue)]

\* -------------------------------------------------------------- TaskManager
\* TaskManager::new
NewManager ==
    [rt_queues |-> [p \in RtPrios |-> <<>>], rt_bitmap |-> {}, rt_nr |-> 0,
     cfs_tasks |-> {}, min_vruntime |-> 0, total_weight |-> 0, cfs_nr |-> 0,
     idle_queue |-> <<>>, interruptible_queue |-> <<>>]

\* Where a task sits in one manager.
InRt(m, t) == \E p \in RtPrios : InSeq(m.rt_queues[p], t)
InCfs(m, t) == \E k \in m.cfs_tasks : k[2] = t
InIdle(m, t) == InSeq(m.idle_queue, t)
InReady(m, t) == InRt(m, t) \/ InCfs(m, t) \/ InIdle(m, t)
InInterruptible(m, t) == InSeq(m.interruptible_queue, t)

\* TaskManager::add: [m, vruntime] (enqueue may move the entity's vruntime)
ManagerAdd(m, t, e) ==
    CASE get_sched_class(e) = "Rt" ->
            [m |-> RtEnqueue(m, t, e), vruntime |-> e.vruntime]
      [] get_sched_class(e) = "Cfs" ->
            CfsEnqueue(m, t, e, e.sum_exec_runtime = 0)
      [] OTHER ->
            [m |-> [m EXCEPT !.idle_queue = Append(@, t)], vruntime |-> e.vruntime]

\* TaskManager::fetch: [m, task]
ManagerFetch(m) ==
    LET r == RtPickNext(m)
        c == CfsPickNext(m)
    IN IF r.task # NoTask THEN r
       ELSE IF c.task # NoTask THEN c
       ELSE IdlePickNext(m)

\* TaskManager::total_count
total_count(m) == m.rt_nr + m.cfs_nr + Len(m.idle_queue)

\* TaskManager::steal_from_cfs: [m, task]
steal_from_cfs(m) ==
    IF m.cfs_nr >= 2 THEN CfsPickNext(m) ELSE [m |-> m, task |-> NoTask]

\* TaskManager::find_by_pid(..).is_some()
find_by_pid(m, t) == InReady(m, t) \/ InInterruptible(m, t)

\* TaskManager::try_wake_interruptible: [m, vruntime, ok]
try_wake_interruptible(m, t, e) ==
    LET m1 == [m EXCEPT !.interruptible_queue = Without(@, t)] IN
    IF ~find_by_pid(m1, t)
    THEN LET a == ManagerAdd(m1, t, e) IN
         [m |-> a.m, vruntime |-> a.vruntime, ok |-> TRUE]
    ELSE [m |-> m1, vruntime |-> e.vruntime, ok |-> FALSE]

\* ------------------------------------------------------- task control block
\* TaskControlBlock as sys_clone / TaskControlBlock::new build it.  The two
\* atomics start as "not running, not in a switch".
NewTcb(tgid, parent, exit_signal, sigpending) ==
    [exists |-> TRUE, tgid |-> tgid, parent |-> parent,
     exit_signal |-> exit_signal,
     running_on_cpu |-> TASK_NOT_RUNNING, on_cpu |-> FALSE,
     task_status |-> "Ready", sigpending |-> sigpending,
     policy |-> "Normal", rt_priority |-> 0, weight |-> NICE_0_WEIGHT,
     vruntime |-> 0, sum_exec_runtime |-> 0, exec_start |-> 0, last_cpu |-> 0,
     resume |-> "user", wait_addr |-> "", wake_cause |-> "none",
     tid |-> 1, vm |-> tgid, tid_allocator |-> tgid]

\* A pid that pid_alloc has not handed out yet.
Unborn == [NewTcb(NoTask, NoTask, FALSE, FALSE) EXCEPT !.exists = FALSE]

\* Processor::new, with the hart's position in run_tasks / in the syscall
NewProcessor ==
    [current |-> NoTask, pending |-> NoTask, pc |-> "loop",
     next |-> NoTask, status |-> "", addr |-> "", timeout |-> 0]

\* add_task: the managers the task may be added to.  The last_cpu manager is
\* taken with try_lock, which fails when another hart holds it.
AddTaskTargets(c, t, tc) ==
    IF tc[t].last_cpu < MAX_CPU_NUM /\ tc[t].last_cpu # c
    THEN {tc[t].last_cpu, c} ELSE {c}

\* manager.add(task) on TASK_MANAGERS[target]: the new <<mgr, tcb>>
AddTo(target, t, mg, tc) ==
    LET a == ManagerAdd(mg[target], t, tc[t]) IN
    <<[mg EXCEPT ![target] = a.m], [tc EXCEPT ![t].vruntime = a.vruntime]>>

Halted == panic # ""

\* The counters the kernel lets grow without limit stay within the bounds.
MaxVruntime == MaxPlace * (SCHED_LATENCY_NS \div 2) + MaxTime
Bounded ==
    /\ \A t \in Tasks : tcb[t].vruntime <= MaxVruntime
    /\ \A c \in CPUs : mgr[c].cfs_nr <= MaxNr /\ mgr[c].rt_nr <= MaxNr
    /\ \A c \in CPUs : Len(mgr[c].interruptible_queue) <= MaxQueue
    /\ \A a \in Addrs : Len(futex[a]) <= MaxQueue

\* A panic stops every hart.
Halt(msg) ==
    /\ panic' = msg
    /\ cpu' = [c \in CPUs |-> [cpu[c] EXCEPT !.pc = "halt"]]

\* ------------------------------------------------------------ user programs
\* One operation of a user program.  A program is a sequence of operations;
\* <<AnyOp>> is the program that may do any operation, any number of times.
Op(op, addr, addr2, val, val2) ==
    [op |-> op, addr |-> addr, addr2 |-> addr2, val |-> val, val2 |-> val2]
AnyOp == Op("any", "", "", 0, 0)
Allowed(t, o) == prog[t] # <<>> /\ Head(prog[t]) \in {AnyOp, o}
Advance(t) == IF Head(prog[t]) = AnyOp THEN prog ELSE [prog EXCEPT ![t] = Tail(@)]

\* ------------------------------------------------------------- the dispatcher
\* run_tasks, lines 97-99: take the pending task and store TASK_NOT_RUNNING
\* in its running_on_cpu.
TakePending(c) ==
    /\ cpu[c].pc = "loop" /\ cpu[c].pending # NoTask
    /\ LET t == cpu[c].pending IN
          /\ tcb' = [tcb EXCEPT ![t].running_on_cpu = TASK_NOT_RUNNING]
          /\ cpu' = [cpu EXCEPT ![c].pending = NoTask, ![c].next = t,
                                ![c].pc = "on_cpu"]
    /\ UNCHANGED <<othervars, memvars, mgr, futex, word, timeouts, now, prog, obs, panic>>

\* run_tasks, lines 100-112: store false in its on_cpu and account its
\* runtime.
ClearOnCpu(c) ==
    /\ cpu[c].pc = "on_cpu"
    /\ LET t == cpu[c].next
           e == update_runtime(tcb[t], now)
       IN tcb' = [tcb EXCEPT ![t] = [e EXCEPT !.on_cpu = FALSE]]
    /\ cpu' = [cpu EXCEPT ![c].pc = "status"]
    /\ UNCHANGED <<othervars, memvars, mgr, futex, word, timeouts, now, prog, obs, panic>>

\* run_tasks, line 115: the status of the task taken from the pending slot is
\* read under its inner lock, after the atomics were cleared.
ReadStatus(c) ==
    /\ cpu[c].pc = "status"
    /\ cpu' = [cpu EXCEPT ![c].status = tcb[cpu[c].next].task_status,
                          ![c].pc = "publish"]
    /\ UNCHANGED <<othervars, memvars, tcb, mgr, futex, word, timeouts, now, prog, obs, panic>>

\* run_tasks, lines 118-132: publish the pending task by the status read.
PublishReady(c) ==
    /\ cpu[c].pc = "publish" /\ cpu[c].status = "Ready"
    /\ \E target \in AddTaskTargets(c, cpu[c].next, tcb) :
          LET r == AddTo(target, cpu[c].next, mgr, tcb) IN
          mgr' = r[1] /\ tcb' = r[2]
    /\ cpu' = [cpu EXCEPT ![c].pc = "loop", ![c].next = NoTask, ![c].status = ""]
    /\ UNCHANGED <<othervars, memvars, futex, word, timeouts, now, prog, obs, panic>>
    /\ Bounded'

PublishInterruptible(c) ==
    /\ cpu[c].pc = "publish" /\ cpu[c].status = "Interruptible"
    /\ mgr' = [mgr EXCEPT ![c].interruptible_queue = Append(@, cpu[c].next)]
    /\ cpu' = [cpu EXCEPT ![c].pc = "loop", ![c].next = NoTask, ![c].status = ""]
    /\ UNCHANGED <<othervars, memvars, tcb, futex, word, timeouts, now, prog, obs, panic>>
    /\ Bounded'

\* run_tasks, lines 128-131: any other status read is fatal.
PublishPanic(c) ==
    /\ cpu[c].pc = "publish" /\ cpu[c].status \notin {"Ready", "Interruptible"}
    /\ Halt("pending task has unexpected status")
    /\ UNCHANGED <<othervars, memvars, tcb, mgr, futex, word, timeouts, now, prog, obs>>

\* fetch_task, line 403: the local fetch.
FetchLocal(c) ==
    /\ cpu[c].pc = "loop" /\ cpu[c].pending = NoTask /\ cpu[c].current = NoTask
    /\ LET r == ManagerFetch(mgr[c]) IN
       /\ r.task # NoTask
       /\ mgr' = [mgr EXCEPT ![c] = r.m]
       /\ cpu' = [cpu EXCEPT ![c].next = r.task, ![c].pc = "spin"]
    /\ UNCHANGED <<othervars, memvars, tcb, futex, word, timeouts, now, prog, obs, panic>>

\* fetch_task, lines 410-427: with nothing local, the first peer (in index
\* order) whose try_lock succeeds, that holds >= 2 tasks and yields a CFS
\* task.  busy is the set of peers whose lock another hart holds.
StealVictims(c, busy) ==
    {i \in CPUs \ ({c} \cup busy) :
        total_count(mgr[i]) >= 2 /\ steal_from_cfs(mgr[i]).task # NoTask}

Steal(c) ==
    /\ cpu[c].pc = "loop" /\ cpu[c].pending = NoTask /\ cpu[c].current = NoTask
    /\ ManagerFetch(mgr[c]).task = NoTask
    /\ \E busy \in SUBSET (CPUs \ {c}) :
          /\ StealVictims(c, busy) # {}
          /\ LET i == CHOOSE v \in StealVictims(c, busy) :
                          \A w \in StealVictims(c, busy) : v <= w
                 r == steal_from_cfs(mgr[i])
             IN /\ mgr' = [mgr EXCEPT ![i] = r.m]
                /\ cpu' = [cpu EXCEPT ![c].next = r.task, ![c].pc = "spin"]
    /\ UNCHANGED <<othervars, memvars, tcb, futex, word, timeouts, now, prog, obs, panic>>

\* run_tasks, lines 139-149: leave the spin once on_cpu is observed false.
SpinOnCpu(c) ==
    /\ cpu[c].pc = "spin" /\ ~tcb[cpu[c].next].on_cpu
    /\ cpu' = [cpu EXCEPT ![c].pc = "cas"]
    /\ UNCHANGED <<othervars, memvars, tcb, mgr, futex, word, timeouts, now, prog, obs, panic>>

\* do_futex_wait, lines 137-149: what the wait returns once the task runs
\* again after block_current_and_run_next.
FutexWaitResult(e) == IF e.sigpending THEN "EINTR" ELSE "SUCCESS"

\* A store in place of the CAS: it succeeds whatever running_on_cpu holds.
store_running_on_cpu(e) == TRUE

\* run_tasks, lines 152-157: running_on_cpu.compare_exchange(TASK_NOT_RUNNING,
\* cpu_id) succeeds iff the task runs nowhere.
compare_exchange(e) == e.running_on_cpu = TASK_NOT_RUNNING

\* run_tasks, lines 152-193: the CAS on running_on_cpu succeeds; under the
\* inner lock the task becomes Running and its entity records the start time
\* and the hart.
Dispatch(c) ==
    /\ cpu[c].pc = "cas"
    /\ LET t == cpu[c].next IN
       /\ compare_exchange(tcb[t])
       /\ tcb' = [tcb EXCEPT ![t].running_on_cpu = c,
                             ![t].task_status = "Running",
                             ![t].exec_start = now,
                             ![t].last_cpu = c]
       /\ cpu' = [cpu EXCEPT ![c].pc = "switch"]
    /\ UNCHANGED <<othervars, memvars, mgr, futex, word, timeouts, now, prog, obs, panic>>

\* run_tasks, lines 210-223: on_cpu is set, the task becomes current and
\* __switch resumes it where its context was saved: in user code, or in
\* do_futex_wait after the block.
SwitchTo(c) ==
    /\ cpu[c].pc = "switch"
    /\ LET t == cpu[c].next IN
       /\ tcb' = [tcb EXCEPT ![t].on_cpu = TRUE,
                             ![t].resume = "user",
                             ![t].wait_addr = "",
                             ![t].wake_cause = "none"]
       /\ cpu' = [cpu EXCEPT ![c].current = t, ![c].next = NoTask, ![c].pc = "user"]
       /\ obs' = IF tcb[t].resume = "futex_wait"
                 THEN [obs EXCEPT ![t] = FutexWaitResult(tcb[t])]
                 ELSE obs
    /\ UNCHANGED <<othervars, memvars, mgr, futex, word, timeouts, now, prog, panic>>

\* run_tasks, lines 158-161: the CAS fails.
DoubleRunPanic(c) ==
    /\ cpu[c].pc = "cas"
    /\ ~compare_exchange(tcb[cpu[c].next])
    /\ Halt("DOUBLE RUN DETECTED")
    /\ UNCHANGED <<othervars, memvars, tcb, mgr, futex, word, timeouts, now, prog, obs>>

\* ------------------------------------------------------------------ waking
\* The task's status goes Interruptible -> Ready under its inner lock; the
\* model remembers what woke it.
MarkReady(tc, t, cause) ==
    [tc EXCEPT ![t].task_status = "Ready", ![t].wake_cause = cause]

\* TASK_MANAGERS[i].try_wake_interruptible(task): [mg, tc, ok]
TryWakeOn(i, t, mg, tc) ==
    LET r == try_wake_interruptible(mg[i], t, tc[t]) IN
    [mg |-> [mg EXCEPT ![i] = r.m],
     tc |-> [tc EXCEPT ![t].vruntime = r.vruntime], ok |-> r.ok]

\* The global wake_interruptible: the set of [mg, tc] it can end with.  Every
\* manager is taken with try_lock and the pass over the managers is repeated
\* until one pass meets no held lock, so the task is added to some manager
\* whose ready queues do not hold it (any of them: those before it in the
\* pass may have been held), and the managers visited in vain (any set of
\* those whose ready queues hold it) have lost it from their interruptible
\* queue.  With no manager to add to, every manager has been visited in vain.
wake_interruptible(t, mg, tc) ==
    LET Targets == {i \in CPUs : ~InReady(mg[i], t)}
        Drop(D) == [i \in CPUs |->
                      IF i \in D
                      THEN [mg[i] EXCEPT !.interruptible_queue = Without(@, t)]
                      ELSE mg[i]]
    IN IF Targets = {} THEN {[mg |-> Drop(CPUs), tc |-> tc]}
       ELSE {[mg |-> TryWakeOn(x[1], t, Drop(x[2]), tc).mg,
              tc |-> TryWakeOn(x[1], t, Drop(x[2]), tc).tc] :
                 x \in Targets \X SUBSET (CPUs \ Targets)}

\* One iteration of the wake loops for an Interruptible task: the local
\* try_wake_interruptible and, if that fails, the global wake_interruptible.
WakeOne(c, t, cause, mg, tc) ==
    LET l == TryWakeOn(c, t, mg, MarkReady(tc, t, cause)) IN
    IF l.ok THEN {[mg |-> l.mg, tc |-> l.tc]}
    ELSE wake_interruptible(t, l.mg, l.tc)

\* WaitQueue::wake_at_most, the while loop (lines 637-692) on hart c: the set
\* of [mg, tc, queue, cnt] it can end with.  Every TaskControlBlock outlives
\* its Weak references: nothing in the model reaps a zombie.
RECURSIVE WakeLoop(_, _, _, _, _, _, _)
WakeLoop(c, queue, cnt, limit, cause, mg, tc) ==
    IF queue = <<>>
    THEN {[mg |-> mg, tc |-> tc, queue |-> queue, cnt |-> cnt]}
    ELSE LET t == Head(queue) IN
         IF tc[t].task_status # "Interruptible"
         THEN WakeLoop(c, Tail(queue), cnt, limit, cause, mg, tc)
         ELSE UNION {IF cnt + 1 = limit
                     THEN {[mg |-> o.mg, tc |-> o.tc,
                            queue |-> Tail(queue), cnt |-> cnt + 1]}
                     ELSE WakeLoop(c, Tail(queue), cnt + 1, limit, cause, o.mg, o.tc) :
                        o \in WakeOne(c, t, cause, mg, tc)}

\* WaitQueue::wake_at_most
wake_at_most(c, queue, limit, cause, mg, tc) ==
    IF limit = 0
    THEN {[mg |-> mg, tc |-> tc, queue |-> queue, cnt |-> 0]}
    ELSE WakeLoop(c, queue, 0, limit, cause, mg, tc)

\* TimeoutWaitQueue::wake_expired on hart c: the set of [mg, tc, timeouts] it
\* can end with.  The heap pops the earliest deadline first.
RECURSIVE wake_expired(_, _, _, _, _)
wake_expired(c, tq, t_now, mg, tc) ==
    IF \A w \in tq : w.timeout > t_now
    THEN {[mg |-> mg, tc |-> tc, timeouts |-> tq]}
    ELSE LET w == CHOOSE x \in tq :
                     \A y \in tq : x.timeout < y.timeout
                                   \/ (x.timeout = y.timeout /\ x.task <= y.task)
         IN IF tc[w.task].task_status # "Interruptible"
            THEN wake_expired(c, tq \ {w}, t_now, mg, tc)
            ELSE UNION {wake_expired(c, tq \ {w}, t_now, o.mg, o.tc) :
                           o \in WakeOne(c, w.task, "timeout", mg, tc)}

\* ----------------------------------------------------------------- suspension
\* suspend_current_and_run_next: status Ready, the task moves from current to
\* the pending slot, schedule() switches to the idle context.
SuspendCurrent(c, tc) ==
    /\ tcb' = [tc EXCEPT ![cpu[c].current].task_status = "Ready"]
    /\ cpu' = [cpu EXCEPT ![c].current = NoTask, ![c].pending = cpu[c].current,
                          ![c].pc = "loop"]

\* block_current_and_run_next from do_futex_wait: status Interruptible, the
\* task moves to the pending slot; it resumes inside do_futex_wait.
BlockCurrent(c) ==
    /\ tcb' = [tcb EXCEPT ![cpu[c].current].task_status = "Interruptible",
                          ![cpu[c].current].resume = "futex_wait",
                          ![cpu[c].current].wait_addr = cpu[c].addr]
    /\ cpu' = [cpu EXCEPT ![c].current = NoTask, ![c].pending = cpu[c].current,
                          ![c].pc = "loop", ![c].addr = "", ![c].timeout = 0]

\* trap_handler, a timer interrupt from user mode: do_wake_expired, then the
\* current task is suspended.
TimerTick(c) ==
    /\ cpu[c].pc = "user"
    /\ \E o \in wake_expired(c, timeouts, now, mgr, tcb) :
          /\ mgr' = o.mg
          /\ timeouts' = o.timeouts
          /\ SuspendCurrent(c, o.tc)
    /\ UNCHANGED <<othervars, memvars, futex, word, now, prog, obs, panic>>
    /\ Bounded'

\* A timer interrupt taken in the kernel, on a hart that runs no task:
\* do_wake_expired only.
KernelTick(c) ==
    /\ cpu[c].pc = "loop" /\ cpu[c].current = NoTask /\ cpu[c].pending = NoTask
    /\ timeouts # {}
    /\ \E o \in wake_expired(c, timeouts, now, mgr, tcb) :
          /\ mgr' = o.mg
          /\ timeouts' = o.timeouts
          /\ tcb' = o.tc
    /\ UNCHANGED <<othervars, memvars, cpu, futex, word, now, prog, obs, panic>>
    /\ Bounded'

\* The clock advances.
AdvanceTime ==
    /\ ~Halted
    /\ now < MaxTime
    /\ now' = now + 1
    /\ UNCHANGED <<othervars, memvars, tcb, mgr, cpu, futex, word, timeouts, prog, obs, panic>>

\* ----------------------------------------------------------------- user code
\* A store to a futex word by the running task.
UserStore(c, a, v) ==
    /\ cpu[c].pc = "user" /\ Allowed(cpu[c].current, Op("store", a, "", v, 0))
    /\ word[a] # v
    /\ word' = [word EXCEPT ![a] = v]
    /\ prog' = Advance(cpu[c].current)
    /\ UNCHANGED <<othervars, memvars, tcb, mgr, cpu, futex, timeouts, now, obs, panic>>

\* dispatch_syscall: the wrapper the table has for a syscall number, "None"
\* for a number without one.  Numbers are written by the names of their
\* constants; "unassigned" is a number no constant has.  The table's other
\* entries lead to the handlers modelled by their own actions.
dispatch_syscall(id) ==
    CASE id = "SYSCALL_GETRANDOM" -> "wrap_getrandom"
      [] id = "SYSCALL_FUTEX" -> "wrap_futex"
      [] id = "SYSCALL_CLONE" -> "wrap_clone"
      [] id = "SYSCALL_EXIT" -> "wrap_exit"
      [] id = "SYSCALL_EXIT_GROUP" -> "wrap_exit_group"
      [] OTHER -> "None"

\* The numbers a program here calls through Syscall.
SyscallIds == {"SYSCALL_GETRANDOM", "SYSCALL_LS", "SYSCALL_CLEAR", "unassigned"}

\* Returning ENOSYS without raising the signal.
return_enosys(e) == [e |-> e, ret |-> "ENOSYS"]

\* handle_unsupported_syscall: SIGSYS is added to the caller's pending
\* signals and ENOSYS is the result.
handle_unsupported_syscall(e) ==
    [e |-> [e EXCEPT !.sigpending = TRUE], ret |-> "ENOSYS"]

\* syscall(syscall_id, args) for the running task, and the trap handler's
\* store of the result in a0: sys_getrandom returns 0.
Syscall(c, id) ==
    /\ cpu[c].pc = "user" /\ Allowed(cpu[c].current, Op("syscall", id, "", 0, 0))
    /\ LET t == cpu[c].current
           r == IF dispatch_syscall(id) = "None"
                THEN handle_unsupported_syscall(tcb[t])
                ELSE [e |-> tcb[t], ret |-> "0"]
       IN /\ tcb' = [tcb EXCEPT ![t] = r.e]
          /\ obs' = [obs EXCEPT ![t] = r.ret]
          /\ prog' = Advance(t)
    /\ UNCHANGED <<othervars, memvars, mgr, cpu, futex, word, timeouts, now, panic>>

\* do_futex_wait, lines 91-104: the deadline is computed, the futex word is
\* loaded and compared; no lock is held.  d = 0 is "no timeout".
FutexWaitCheck(c, a, v, d) ==
    /\ cpu[c].pc = "user" /\ Allowed(cpu[c].current, Op("wait", a, "", v, d))
    /\ IF word[a] # v
       THEN /\ obs' = [obs EXCEPT ![cpu[c].current] = "EAGAIN"]
            /\ prog' = Advance(cpu[c].current)
            /\ cpu' = cpu
       ELSE /\ cpu' = [cpu EXCEPT ![c].pc = "fw_checked", ![c].addr = a,
                                  ![c].timeout = IF d = 0 THEN 0 ELSE now + d]
            /\ UNCHANGED <<othervars, memvars, obs, prog>>
    /\ UNCHANGED <<othervars, memvars, tcb, mgr, futex, word, timeouts, now, panic>>

\* do_futex_wait, lines 105-132: under the futex lock the task is appended to
\* the wait queue of the address; with a timeout it is pushed on the timeout
\* heap.
FutexWaitEnqueue(c) ==
    /\ cpu[c].pc = "fw_checked"
    /\ futex' = [futex EXCEPT ![cpu[c].addr] = Append(@, cpu[c].current)]
    /\ timeouts' = IF cpu[c].timeout = 0 THEN timeouts
                   ELSE timeouts \cup {[task |-> cpu[c].current,
                                        timeout |-> cpu[c].timeout]}
    /\ cpu' = [cpu EXCEPT ![c].pc = "fw_queued"]
    /\ UNCHANGED <<othervars, memvars, tcb, mgr, word, now, prog, obs, panic>>
    /\ Bounded'

\* do_futex_wait, line 135: block_current_and_run_next
FutexWaitBlock(c) ==
    /\ cpu[c].pc = "fw_queued"
    /\ BlockCurrent(c)
    /\ prog' = Advance(cpu[c].current)
    /\ UNCHANGED <<othervars, memvars, mgr, futex, word, timeouts, now, obs, panic>>

\* Futex::wake on hart c, under the futex lock: [mg, tc, futex, cnt]
FutexWakeOutcomes(c, a, n, mg, tc, fx) ==
    IF fx[a] = <<>> THEN {[mg |-> mg, tc |-> tc, futex |-> fx, cnt |-> 0]}
    ELSE {[mg |-> o.mg, tc |-> o.tc, futex |-> [fx EXCEPT ![a] = o.queue],
           cnt |-> o.cnt] : o \in wake_at_most(c, fx[a], n, "futex", mg, tc)}

\* sys_futex FUTEX_WAKE
FutexWake(c, a, n) ==
    /\ cpu[c].pc = "user" /\ Allowed(cpu[c].current, Op("wake", a, "", n, 0))
    /\ \E o \in FutexWakeOutcomes(c, a, n, mgr, tcb, futex) :
          mgr' = o.mg /\ tcb' = o.tc /\ futex' = o.futex
    /\ prog' = Advance(cpu[c].current)
    /\ UNCHANGED <<othervars, memvars, cpu, word, timeouts, now, obs, panic>>
    /\ Bounded'

\* Futex::requeue, lines 184-209, on the table left by the wake: the table
FutexMove(a1, a2, n_move, fx) ==
    IF fx[a1] = <<>> THEN fx
    ELSE LET k == IF n_move = 0 THEN 0 ELSE Min(n_move, Len(fx[a1]))
             wait_queue == SubSeq(fx[a1], k + 1, Len(fx[a1]))
             wait_queue_2 == (IF a1 = a2 THEN <<>> ELSE fx[a2])
                                \o SubSeq(fx[a1], 1, k)
             removed == [fx EXCEPT ![a1] = <<>>, ![a2] = <<>>]
             first == IF wait_queue # <<>>
                      THEN [removed EXCEPT ![a1] = wait_queue] ELSE removed
         IN IF wait_queue_2 # <<>>
            THEN [first EXCEPT ![a2] = wait_queue_2] ELSE first

\* sys_futex FUTEX_REQUEUE: Futex::requeue under the futex lock
FutexRequeue(c, a1, a2, n_wake, n_move) ==
    /\ cpu[c].pc = "user"
    /\ Allowed(cpu[c].current, Op("requeue", a1, a2, n_wake, n_move))
    /\ \E o \in FutexWakeOutcomes(c, a1, n_wake, mgr, tcb, futex) :
          mgr' = o.mg /\ tcb' = o.tc /\ futex' = FutexMove(a1, a2, n_move, o.futex)
    /\ prog' = Advance(cpu[c].current)
    /\ UNCHANGED <<othervars, memvars, cpu, word, timeouts, now, obs, panic>>
    /\ Bounded'

\* ---------------------------------------------------------------- exit, clone
\* do_exit(task): the set of [mg, tc] it can end with.  clear_child_tid is 0
\* in every task of the model (sys_clone sets it to 0), so phase 4 does
\* nothing.
do_exit(t, mg, tc) ==
    LET zombie == [tc EXCEPT ![t].task_status = "Zombie"]
        p == tc[t].parent
        signalled == [zombie EXCEPT ![p].sigpending = TRUE]
        notified ==
            IF tc[t].exit_signal /\ p # NoTask
            THEN IF signalled[p].task_status = "Interruptible"
                 THEN wake_interruptible(p, mg, MarkReady(signalled, p, "signal"))
                 ELSE {[mg |-> mg, tc |-> signalled]}
            ELSE {[mg |-> mg, tc |-> zombie]}
        children == {u \in Tasks : tc[u].exists /\ tc[u].parent = t}
        Reparent(o) ==
            LET moved == [u \in Tasks |->
                            IF u \in children
                            THEN [o.tc[u] EXCEPT !.parent = INITPROC] ELSE o.tc[u]]
            IN IF children = {} THEN {o}
               ELSE IF moved[INITPROC].task_status = "Interruptible"
               THEN wake_interruptible(INITPROC, o.mg,
                                       MarkReady(moved, INITPROC, "reparent"))
               ELSE {[mg |-> o.mg, tc |-> moved]}
    IN UNION {Reparent(o) : o \in notified}

\* sys_exit: exit_current_and_run_next.  The task leaves the hart without
\* going through the pending slot.
Exit(c) ==
    /\ cpu[c].pc = "user" /\ Allowed(cpu[c].current, Op("exit", "", "", 0, 0))
    /\ \E o \in do_exit(cpu[c].current, mgr, tcb) : mgr' = o.mg /\ tcb' = o.tc
    /\ cpu' = [cpu EXCEPT ![c].current = NoTask, ![c].pc = "loop"]
    /\ prog' = Advance(cpu[c].current)
    /\ UNCHANGED <<othervars, memvars, futex, word, timeouts, now, obs, panic>>
    /\ Bounded'

\* The keys of a CFS tree in ascending order.
RECURSIVE KeysInOrder(_)
KeysInOrder(keys) ==
    IF keys = {} THEN <<>>
    ELSE LET k == CHOOSE x \in keys : \A y \in keys \ {x} : KeyLess(x, y)
         IN <<k>> \o KeysInOrder(keys \ {k})

\* exit_group_and_run_next, lines 248-271, for one manager: the tasks of the
\* thread group leave its ready queues and its interruptible queue:
\* [m, exit_list]
SweepManager(m, tgid, tc) ==
    LET In(t) == tc[t].tgid = tgid
        Out(t) == tc[t].tgid # tgid
        rt == [p \in RtPrios |-> SelectSeq(m.rt_queues[p], Out)]
        rt_gone == [p \in RtPrios |-> SelectSeq(m.rt_queues[p], In)]
        keys == KeysInOrder({k \in m.cfs_tasks : In(k[2])})
        cfs_gone == [i \in 1 .. Len(keys) |-> keys[i][2]]
    IN [m |-> [m EXCEPT !.rt_queues = rt,
                        !.rt_bitmap = {p \in RtPrios : rt[p] # <<>>},
                        !.rt_nr = SatSub(@, Len(rt_gone[10]) + Len(rt_gone[50])),
                        !.cfs_tasks = {k \in @ : Out(k[2])},
                        !.cfs_nr = SatSub(@, Len(keys)),
                        !.total_weight = SatSub(@, Len(keys) * NICE_0_WEIGHT),
                        !.idle_queue = SelectSeq(@, Out),
                        !.interruptible_queue = SelectSeq(@, Out)],
        exit_list |-> rt_gone[50] \o rt_gone[10] \o cfs_gone
                      \o SelectSeq(m.idle_queue, In)
                      \o SelectSeq(m.interruptible_queue, In)]

\* The sweep over TASK_MANAGERS, in index order: [mg, exit_list]
RECURSIVE SweepManagers(_, _, _, _)
SweepManagers(i, mg, tgid, tc) ==
    IF i = MAX_CPU_NUM THEN [mg |-> mg, exit_list |-> <<>>]
    ELSE LET s == SweepManager(mg[i], tgid, tc)
             r == SweepManagers(i + 1, [mg EXCEPT ![i] = s.m], tgid, tc)
         IN [mg |-> r.mg, exit_list |-> s.exit_list \o r.exit_list]

\* exit_group_and_run_next, lines 273-275: do_exit on every swept task
RECURSIVE ExitAll(_, _, _)
ExitAll(exit_list, mg, tc) ==
    IF exit_list = <<>> THEN {[mg |-> mg, tc |-> tc]}
    ELSE UNION {ExitAll(Tail(exit_list), o.mg, o.tc) :
                   o \in do_exit(Head(exit_list), mg, tc)}

\* sys_exit_group: exit_group_and_run_next
ExitGroup(c) ==
    /\ cpu[c].pc = "user"
    /\ Allowed(cpu[c].current, Op("exit_group", "", "", 0, 0))
    /\ \E first \in do_exit(cpu[c].current, mgr, tcb) :
          LET s == SweepManagers(0, first.mg, tcb[cpu[c].current].tgid, first.tc)
          IN \E o \in ExitAll(s.exit_list, s.mg, first.tc) :
                mgr' = o.mg /\ tcb' = o.tc
    /\ cpu' = [cpu EXCEPT ![c].current = NoTask, ![c].pc = "loop"]
    /\ prog' = Advance(cpu[c].current)
    /\ UNCHANGED <<othervars, memvars, futex, word, timeouts, now, obs, panic>>
    /\ Bounded'

\* The clone flags the model tells apart, and the flags of a thread
\* creation.
CloneFlags == {"CLONE_VM", "CLONE_THREAD"}
ThreadFlags == {"CLONE_VM", "CLONE_THREAD"}

\* RecycleAllocator::alloc on the tid allocator `a`: the allocator starts at
\* 1 and no tid has been given back, so `current` is one more than the
\* number of tids it has handed out.
tid_alloc(tc, a) ==
    1 + Cardinality({w \in Tasks : tc[w].exists /\ tc[w].tid_allocator = a})

\* sys_clone, then add_task(child).  CLONE_THREAD: same tgid, the caller's
\* parent, no exit signal, the caller's tid allocator; otherwise a child
\* process with an exit signal and a new allocator.  CLONE_VM: the caller's
\* address space; otherwise a copy of it, named by the child's pid.
\* CLONE_SYSVSEM is always set: one futex table for all tasks.
Clone(c, flags) ==
    /\ cpu[c].pc = "user"
    /\ Allowed(cpu[c].current,
               Op("clone", "", "", IF "CLONE_THREAD" \in flags THEN 1 ELSE 0, 0))
    /\ \E u \in Tasks :
          /\ ~tcb[u].exists /\ \A w \in Tasks : w < u => tcb[w].exists
          /\ LET t == cpu[c].current
                 thread == "CLONE_THREAD" \in flags
                 tid_allocator == IF thread THEN tcb[t].tid_allocator ELSE u
                 new == IF thread
                        THEN NewTcb(tcb[t].tgid, tcb[t].parent, FALSE,
                                    tcb[t].sigpending)
                        ELSE NewTcb(u, t, TRUE, tcb[t].sigpending)
                 child == [new EXCEPT
                             !.vm = IF "CLONE_VM" \in flags THEN tcb[t].vm ELSE u,
                             !.tid_allocator = tid_allocator,
                             !.tid = tid_alloc(tcb, tid_allocator)]
                 born == [tcb EXCEPT ![u] = child]
             IN \E target \in AddTaskTargets(c, u, born) :
                   LET r == AddTo(target, u, mgr, born) IN
                   mgr' = r[1] /\ tcb' = r[2]
    /\ prog' = Advance(cpu[c].current)
    /\ UNCHANGED <<othervars, memvars, cpu, futex, word, timeouts, now, obs, panic>>
    /\ Bounded'

\* execve: load_elf on the running task.  The address space is replaced in
\* place, the futex table is cleared, and when the tid allocator counts more
\* than one allocated tid (get_allocated is `current` less the recycled
\* tids), the tasks of the thread group are taken out of the CFS queue and
\* the interruptible queue of every manager.
Execve(c) ==
    /\ cpu[c].pc = "user" /\ Allowed(cpu[c].current, Op("execve", "", "", 0, 0))
    /\ LET t == cpu[c].current
           Out(u) == tcb[u].tgid # tcb[t].tgid
           gone(m) == {k \in m.cfs_tasks : ~Out(k[2])}
       IN mgr' = IF tid_alloc(tcb, tcb[t].tid_allocator) > 1
                 THEN [d \in CPUs |->
                         [mgr[d] EXCEPT
                            !.cfs_tasks = @ \ gone(mgr[d]),
                            !.cfs_nr = SatSub(@, Cardinality(gone(mgr[d]))),
                            !.total_weight =
                                SatSub(@, Cardinality(gone(mgr[d])) * NICE_0_WEIGHT),
                            !.interruptible_queue = SelectSeq(@, Out)]]
                 ELSE mgr
    /\ futex' = [a \in Addrs |-> <<>>]
    /\ prog' = Advance(cpu[c].current)
    /\ UNCHANGED <<othervars, memvars, tcb, cpu, word, timeouts, now, obs, panic>>

\* The running task changes its own scheduling policy: set_policy on its
\* scheduling entity.
SetPolicy(c, policy, priority) ==
    /\ cpu[c].pc = "user"
    /\ Allowed(cpu[c].current, Op("setpolicy", policy, "", priority, 0))
    /\ tcb' = [tcb EXCEPT ![cpu[c].current] = set_policy(@, policy, priority)]
    /\ prog' = Advance(cpu[c].current)
    /\ UNCHANGED <<othervars, memvars, mgr, cpu, futex, word, timeouts, now, obs, panic>>

\* ----------------------------------------------------------- frame allocator
\* The physical page numbers a PhysPageNum takes in the model: the frames of
\* physical memory and, behind them, the addresses a buffer of MaxPages pages
\* that starts at the last frame runs over.
PhysFrames == 0 .. (MemoryEnd + MaxPages - 2)
NoFrame == -1
\* The frames of the kernel image that hold the embedded initproc image.
ImageFrames == 0 .. (EKernel - 1)

Builds == [MODE : {"debug", "release"}, oom_handler : BOOLEAN]
ReleaseBuild == [MODE |-> "release", oom_handler |-> FALSE]

\* StackFrameAllocator::new and init(ekernel, MEMORY_END); nothing is held.
InitFrameAllocator ==
    /\ allocator = [current |-> EKernel, end |-> MemoryEnd, recycled |-> <<>>]
    /\ held = [p \in PhysFrames |-> 0]
    /\ queue_frames = <<>>
    /\ shared = {}

\* StackFrameAllocator::unallocated_frames
unallocated_frames(a) == a.end - a.current + Len(a.recycled)

\* StackFrameAllocator::alloc: [a, ppn]
alloc(a) ==
    IF a.recycled # <<>>
    THEN [a |-> [a EXCEPT !.recycled = SubSeq(@, 1, Len(@) - 1)],
          ppn |-> a.recycled[Len(a.recycled)]]
    ELSE IF a.current = a.end THEN [a |-> a, ppn |-> NoFrame]
    ELSE [a |-> [a EXCEPT !.current = @ + 1], ppn |-> a.current]

\* StackFrameAllocator::dealloc, the condition of its panic:
\* MODE == debug && ppn >= current || recycled contains ppn
dealloc_panics(a, ppn, b) ==
    (b.MODE = "debug" /\ ppn >= a.current) \/ InSeq(a.recycled, ppn)

\* The state the allocator code works on: [a, held, msg], msg the panic
\* message once something has panicked (nothing runs after a panic).
\* frame_dealloc(ppn)
frame_dealloc(ms, ppn, b) ==
    IF ms.msg # "" THEN ms
    ELSE IF dealloc_panics(ms.a, ppn, b)
    THEN [ms EXCEPT !.msg = "Frame has not been allocated!"]
    ELSE [ms EXCEPT !.a.recycled = Append(@, ppn)]

\* frame_dealloc for every ppn of a sequence, in order
RECURSIVE DeallocAll(_, _, _)
DeallocAll(ms, ppns, b) ==
    IF ppns = <<>> THEN ms
    ELSE DeallocAll(frame_dealloc(ms, Head(ppns), b), Tail(ppns), b)

\* Drop for FrameTracker: a live handle on ppn goes away.
DropTracker(ms, ppn, b) ==
    IF ms.msg # "" THEN ms
    ELSE frame_dealloc([ms EXCEPT !.held[ppn] = @ - 1], ppn, b)

\* What the cleaning steps of the reclaim cascade can let go of: any set of
\* frames that have a live handle (one handle of each).
Reclaimable(h) == SUBSET {p \in PhysFrames : h[p] > 0}

\* oom_handler(req): the set of [ms, ok] it can end with; ok is Ok(()).  The
\* handles that are let go are dropped in the order of their frames.
oom_handler(ms, req, b) ==
    {LET order == CHOOSE q \in [1 .. Cardinality(D) -> D] :
                      \A i, j \in 1 .. Cardinality(D) : i < j => q[i] < q[j]
         dropped == [p \in PhysFrames |->
                        IF p \in D THEN ms.held[p] - 1 ELSE ms.held[p]]
     IN [ms |-> DeallocAll([ms EXCEPT !.held = dropped], order, b),
         ok |-> Cardinality(D) >= req] : D \in Reclaimable(ms.held)}

\* Result::unwrap on the Err(()) of oom_handler
UnwrapErr(o) ==
    IF o.ms.msg = "" /\ ~o.ok
    THEN [o.ms EXCEPT !.msg = "called Result::unwrap() on an Err value"]
    ELSE o.ms

\* frame_alloc, in both builds: the set of [ms, ppn] it can end with.  The
\* handle it returns belongs to the caller.
frame_alloc(ms, b) ==
    LET r == alloc(ms.a) IN
    IF r.ppn # NoFrame THEN {[ms |-> [ms EXCEPT !.a = r.a], ppn |-> r.ppn]}
    ELSE IF ~b.oom_handler THEN {[ms |-> ms, ppn |-> NoFrame]}
    ELSE {IF UnwrapErr(o).msg # ""
          THEN [ms |-> UnwrapErr(o), ppn |-> NoFrame]
          ELSE [ms |-> [o.ms EXCEPT !.a = alloc(o.ms.a).a],
                ppn |-> alloc(o.ms.a).ppn] : o \in oom_handler(ms, 1, b)}

\* frames_alloc, with `num` frames still to get and `frames` the Vec so far:
\* the set of [ms, frames, ok] it can end with; ok is Some(frames).  On None
\* the frames collected so far are dropped.
RECURSIVE frames_alloc(_, _, _, _)
frames_alloc(ms, frames, num, b) ==
    IF num = 0 THEN {[ms |-> ms, frames |-> frames, ok |-> TRUE]}
    ELSE UNION {IF o.ms.msg # ""
                THEN {[ms |-> o.ms, frames |-> <<>>, ok |-> FALSE]}
                ELSE IF o.ppn = NoFrame
                THEN {[ms |-> DeallocAll(o.ms, frames, b), frames |-> <<>>,
                       ok |-> FALSE]}
                ELSE frames_alloc(o.ms, Append(frames, o.ppn), num - 1, b) :
                   o \in frame_alloc(ms, b)}

\* The memory state before a step, and the step's effect on it.
Memory == [a |-> allocator, held |-> held, msg |-> ""]

Commit(ms) ==
    /\ allocator' = ms.a
    /\ held' = ms.held
    /\ IF ms.msg # "" THEN Halt(ms.msg) ELSE UNCHANGED <<cpu, panic>>

\* Some kernel code allocates a frame and keeps the handle.
FrameAlloc ==
    /\ ~Halted
    /\ \E o \in frame_alloc(Memory, build) :
          Commit(IF o.ppn = NoFrame THEN o.ms
                 ELSE [o.ms EXCEPT !.held[o.ppn] = @ + 1])
    /\ UNCHANGED <<othervars, tcb, mgr, futex, word, timeouts, now, prog, obs,
                   queue_frames, shared, build>>

\* The holder of a handle drops it.
DropFrame(ppn) ==
    /\ ~Halted
    /\ held[ppn] > 0
    /\ Commit(DropTracker(Memory, ppn, build))
    /\ UNCHANGED <<othervars, tcb, mgr, futex, word, timeouts, now, prog, obs,
                   queue_frames, shared, build>>

\* frame_reserve(num) in the build with the oom_handler feature, when fewer
\* than num frames are unallocated.
FrameReserve(num) ==
    /\ ~Halted
    /\ build.oom_handler
    /\ unallocated_frames(allocator) < num
    /\ \E o \in oom_handler(Memory, num - unallocated_frames(allocator), build) :
          Commit(UnwrapErr(o))
    /\ UNCHANGED <<othervars, tcb, mgr, futex, word, timeouts, now, prog, obs,
                   queue_frames, shared, build>>

\* The init code of the file system gives the frames of the embedded
\* initproc image to the allocator: frame_dealloc on each of them.
DonateImage(ppn) ==
    /\ ~Halted
    /\ allocator.current = EKernel /\ queue_frames = <<>>
    /\ \A p \in PhysFrames : held[p] = 0
    /\ ~InSeq(allocator.recycled, ppn)
    /\ Commit(frame_dealloc(Memory, ppn, build))
    /\ UNCHANGED <<othervars, tcb, mgr, futex, word, timeouts, now, prog, obs,
                   queue_frames, shared, build>>

\* Hal::share of the virtio block driver for a buffer of `pages` pages:
\* frames_alloc(pages).expect(..), the frames go to QUEUE_FRAMES and the
\* address of the first one is the buffer's device address.
VirtioShare(pages) ==
    /\ ~Halted
    /\ \E o \in frames_alloc(Memory, <<>>, pages, build) :
          IF o.ok
          THEN /\ Commit(o.ms)
               /\ queue_frames' = queue_frames \o o.frames
               /\ shared' = shared \cup {[pa |-> o.frames[1], pages |-> pages]}
          ELSE /\ Commit(IF o.ms.msg # "" THEN o.ms
                         ELSE [o.ms EXCEPT !.msg = "share: failed to alloc frames"])
               /\ UNCHANGED <<queue_frames, shared>>
    /\ Len(queue_frames') <= MaxQueueFrames
    /\ UNCHANGED <<othervars, tcb, mgr, futex, word, timeouts, now, prog, obs, build>>

\* Hal::unshare: frame_dealloc on every page from the buffer's address on;
\* QUEUE_FRAMES keeps its handles.
VirtioUnshare(buffer) ==
    /\ ~Halted
    /\ buffer \in shared
    /\ Commit(DeallocAll(Memory,
                         [i \in 1 .. buffer.pages |-> buffer.pa + i - 1], build))
    /\ shared' = shared \ {buffer}
    /\ UNCHANGED <<othervars, tcb, mgr, futex, word, timeouts, now, prog, obs,
                   queue_frames, build>>

\* ------------------------------------------------------------- spin locks
\* The locks of the task subsystem: the run queue of each CPU
\* (TASK_MANAGERS[c]), the processor of each CPU (PROCESSORS[c]), the inner
\* lock of each task, the futex table the threads share and the timeout queue.
NoHart == -1
TASK_MANAGERS(c) == <<"TASK_MANAGERS", c>>
PROCESSORS(c) == <<"PROCESSORS", c>>
inner(t) == <<"inner", t>>
futex_table == <<"futex", 0>>
TIMEOUT_WAITQUEUE == <<"TIMEOUT_WAITQUEUE", 0>>
no_lock == <<"", 0>>

Locks ==
    {TASK_MANAGERS(c) : c \in CPUs} \cup {PROCESSORS(c) : c \in CPUs}
        \cup {inner(t) : t \in Tasks} \cup {futex_table, TIMEOUT_WAITQUEUE}

\* At this level hart c runs task c whenever it runs a task; the other pids
\* are those of the threads the tasks clone, which wait in a ready queue.
Parked == Tasks \ CPUs

\* A kernel path is the sequence of lock and interrupt operations the code
\* performs, in program order, with the reads and writes of the queues and
\* of the task status that decide how it goes on.  One operation: [k, l, n].
Ins(k, l, n) == <<[k |-> k, l |-> l, n |-> n]>>
\* Mutex::lock: spins until the lock is free
lock(l) == Ins("lock", l, 0)
\* the MutexGuard goes out of scope
unlock(l) == Ins("unlock", l, 0)
\* Mutex::try_lock; on None the n operations of the Some branch are skipped
try_lock(l, n) == Ins("try_lock", l, n)
\* return / continue / end of a branch: the next n operations are skipped
skip(n) == Ins("skip", no_lock, n)
\* inner.task_status = status, under the inner lock of t
set_status(t, status) == Ins("set_status", inner(t), status)

keep_interrupts(sie) == [sie |-> sie, was_enabled |-> sie]

\* disable_interrupts: clears sstatus.SIE, returns whether it was set
disable_interrupts(sie) == [sie |-> FALSE, was_enabled |-> sie]

\* restore_interrupts: sets sstatus.SIE if was_enabled
restore_interrupts(sie, was_enabled) == IF was_enabled THEN TRUE ELSE sie

\* InterruptGuard::new and its Drop; `let was_enabled = disable_interrupts()`
\* with the later restore_interrupts(was_enabled) is the same pair.
InterruptGuard == Ins("guard", no_lock, 0)
drop_guard == Ins("drop_guard", no_lock, 0)
\* disable_interrupts() whose result is thrown away
cli == Ins("cli", no_lock, 0)
\* restore_interrupts(true)
sti == Ins("sti", no_lock, 0)
\* The hart takes a trap (sstatus.SPIE := SIE, SIE := 0) and returns from it
\* with sret (SIE := SPIE); to is where the hart is after the sret.
trap == Ins("trap", no_lock, 0)
sret(to) == Ins("sret", no_lock, to)

\* TaskManager::add: the task is put in a ready queue under its inner lock,
\* the caller holding the run queue lock
manager_add(t) ==
    lock(inner(t))
    \o (IF t \in CPUs THEN Ins("enqueue", inner(t), 0) ELSE <<>>)
    \o unlock(inner(t))

\* add_task(task) on hart c, last_cpu being the task's last CPU
add_task(c, t, last_cpu) ==
    InterruptGuard \o lock(inner(t)) \o unlock(inner(t))
    \o (IF last_cpu < MAX_CPU_NUM /\ last_cpu # c
        THEN try_lock(TASK_MANAGERS(last_cpu), Len(manager_add(t)) + 2)
             \o manager_add(t) \o unlock(TASK_MANAGERS(last_cpu))
             \o skip(Len(manager_add(t)) + 2)
        ELSE <<>>)
    \o lock(TASK_MANAGERS(c)) \o manager_add(t) \o unlock(TASK_MANAGERS(c))
    \o drop_guard

\* sleep_interruptible(task) on hart c: the task is put in the
\* interruptible queue of the hart's manager
sleep_interruptible(c, t) ==
    InterruptGuard \o lock(TASK_MANAGERS(c)) \o unlock(TASK_MANAGERS(c))
    \o drop_guard

\* fetch_task on hart c: the local fetch ("fetch": with a task found the
\* n operations of the other branch are skipped) and, when it finds nothing,
\* the pass over the other CPUs with try_lock ("steal"; "unless_task": with
\* a task stolen the rest of the pass is skipped).
RECURSIVE StealPass(_, _)
StealPass(c, i) ==
    IF i = MAX_CPU_NUM THEN <<>>
    ELSE LET rest == StealPass(c, i + 1) IN
         (IF i = c THEN <<>>
          ELSE try_lock(TASK_MANAGERS(i), 2) \o Ins("steal", inner(c), 0)
               \o unlock(TASK_MANAGERS(i))
               \o Ins("unless_task", no_lock, Len(rest)))
         \o rest

fetch_task(c) ==
    InterruptGuard \o lock(TASK_MANAGERS(c))
    \o Ins("fetch", inner(c), Len(StealPass(c, 0)) + 2)
    \o unlock(TASK_MANAGERS(c)) \o StealPass(c, 0) \o skip(1)
    \o unlock(TASK_MANAGERS(c)) \o drop_guard

\* TaskManager::try_wake_interruptible(task) on a manager whose lock the
\* caller holds: the task is dropped from the interruptible queue of the
\* manager; if no queue of the manager holds it, it is added (ok: then the
\* err operations that follow are skipped), if one does the ok operations
\* are skipped.
try_wake_path(t, ok, err) ==
    Ins("try_wake", inner(t), Len(manager_add(t) \o ok) + 1)
    \o manager_add(t) \o ok \o skip(Len(err)) \o err

\* The global wake_interruptible(task): passes over the managers with
\* try_lock until try_wake_interruptible succeeds on one or a pass met no
\* held lock.
RECURSIVE WakePass(_, _)
WakePass(t, i) ==
    IF i = MAX_CPU_NUM THEN <<>>
    ELSE LET found ==
                 try_wake_path(t,
                     unlock(TASK_MANAGERS(i)) \o Ins("return", no_lock, 0),
                     unlock(TASK_MANAGERS(i)))
         IN try_lock(TASK_MANAGERS(i), Len(found)) \o found
            \o WakePass(t, i + 1)

wake_loop(t) ==
    Ins("loop", no_lock, 0) \o WakePass(t, 0) \o Ins("end_loop", inner(t), 0)

wake_interruptible_path(t) ==
    InterruptGuard \o wake_loop(t) \o drop_guard

\* One iteration of the loops of wake_at_most and wake_expired on hart c for
\* the entry of task t: the status is read under the task's inner lock
\* ("wake"); a task that is not Interruptible is passed over (the n
\* operations that follow are skipped), otherwise it is made Ready, the local
\* try_wake_interruptible is tried and, if it fails, the manager is dropped
\* around the global wake_interruptible.
wake_waiter(c, t) ==
    LET woken ==
            unlock(inner(t))
            \o try_wake_path(t, <<>>,
                   unlock(TASK_MANAGERS(c)) \o wake_interruptible_path(t)
                   \o lock(TASK_MANAGERS(c)))
            \o skip(1)
    IN lock(inner(t)) \o Ins("wake", inner(t), Len(woken)) \o woken
       \o unlock(inner(t))

\* WaitQueue::wake_at_most on hart c for the queue q: the loop pops the
\* waiters under the run queue lock of the hart
wake_at_most_path(c, q) ==
    InterruptGuard \o lock(TASK_MANAGERS(c)) \o Ins("pop", q, 0)
    \o unlock(TASK_MANAGERS(c)) \o drop_guard

\* TimeoutWaitQueue::wake_expired on hart c
wake_expired_path(c) ==
    lock(TASK_MANAGERS(c)) \o Ins("pop", TIMEOUT_WAITQUEUE, 0)
    \o unlock(TASK_MANAGERS(c))

\* do_wake_expired
do_wake_expired(c) ==
    InterruptGuard \o lock(TIMEOUT_WAITQUEUE) \o wake_expired_path(c)
    \o unlock(TIMEOUT_WAITQUEUE) \o drop_guard

\* wait_with_timeout(task)
wait_with_timeout(t) ==
    InterruptGuard \o lock(TIMEOUT_WAITQUEUE)
    \o Ins("push", TIMEOUT_WAITQUEUE, t) \o unlock(TIMEOUT_WAITQUEUE)
    \o drop_guard

\* take_current_task / current_task on hart c
current_task(c) ==
    InterruptGuard \o lock(PROCESSORS(c)) \o unlock(PROCESSORS(c)) \o drop_guard

\* schedule(): the switch to the idle context of hart c; pending tells
\* whether the task was left in the pending slot
schedule(c, pending) ==
    cli \o lock(PROCESSORS(c)) \o unlock(PROCESSORS(c))
    \o Ins("switch", no_lock, pending)

\* suspend_current_and_run_next (status "Ready") and
\* block_current_and_run_next (status "Interruptible") of task t on hart c;
\* the guard is dropped when the task runs again
suspend_or_block(c, t, status) ==
    InterruptGuard \o current_task(c)
    \o lock(inner(t)) \o set_status(t, status) \o unlock(inner(t))
    \o lock(PROCESSORS(c)) \o unlock(PROCESSORS(c)) \o schedule(c, TRUE)
    \o drop_guard

\* TaskControlBlock::load_elf of task t: the inner lock is held to the end;
\* the futex table is cleared; every CPU's run queue is locked in turn and
\* the other threads of the group are dropped from it (CfsRunQueue::retain
\* takes the inner lock of each thread it removes).
\* sib is a thread of the group that waits in the ready queue of CPU at
\* (NoTask: the group has no other thread).
RECURSIVE KillThreads(_, _, _)
KillThreads(i, sib, at) ==
    IF i = MAX_CPU_NUM THEN <<>>
    ELSE lock(TASK_MANAGERS(i))
         \o (IF sib # NoTask /\ at = i
             THEN lock(inner(sib)) \o unlock(inner(sib)) ELSE <<>>)
         \o unlock(TASK_MANAGERS(i)) \o KillThreads(i + 1, sib, at)

load_elf(t, sib, at) ==
    lock(inner(t)) \o lock(futex_table) \o unlock(futex_table)
    \o KillThreads(0, sib, at) \o unlock(inner(t))

\* find_task_by_pid on hart c: the current task is looked at first; if it is
\* not the one (~is_current) the managers are locked in turn, up to the one
\* that holds the task (all of them if none does: found_at = MAX_CPU_NUM)
RECURSIVE LockInTurn(_, _)
LockInTurn(i, last) ==
    IF i > last \/ i = MAX_CPU_NUM THEN <<>>
    ELSE lock(TASK_MANAGERS(i)) \o unlock(TASK_MANAGERS(i))
         \o LockInTurn(i + 1, last)

find_task_by_pid(c, is_current, found_at) ==
    InterruptGuard \o current_task(c)
    \o (IF is_current THEN <<>> ELSE LockInTurn(0, found_at))
    \o drop_guard

\* do_exit of task t on hart c: the task becomes a zombie under its inner
\* lock; the parent p (NoTask: none) gets the signal under its own inner
\* lock and is woken if it sleeps; the futex of the tid word is woken (a
\* thread has clear_child_tid set).
do_exit_path(c, t, p) ==
    lock(inner(t)) \o unlock(inner(t))
    \o (IF p = NoTask THEN <<>>
        ELSE lock(inner(p)) \o Ins("notify", inner(p), 0))
    \o lock(futex_table) \o wake_at_most_path(c, futex_table)
    \o unlock(futex_table)

\* exit_group_and_run_next of task t on hart c: do_exit of the current task,
\* every manager is locked in turn and swept of the threads of the group,
\* (the sweep finds no other thread)
exit_group_and_run_next(c, t, p) ==
    cli \o current_task(c) \o do_exit_path(c, t, p)
    \o LockInTurn(0, MAX_CPU_NUM) \o schedule(c, FALSE)

\* The pending task t of hart c goes to the queue its status asks for
\* (run_tasks, lines 115-132); it last ran on hart c.
publish(c, t, status) ==
    unlock(inner(t)) \o unlock(PROCESSORS(c))
    \o (IF status = "Ready" THEN add_task(c, t, c)
        ELSE sleep_interruptible(c, t))
    \o lock(PROCESSORS(c))

\* One turn of the loop of run_tasks on hart c: the pending task t, if there
\* is one, is published; the task fetch_task returns is switched to
\* ("if_task": with no task the n operations of the dispatch are skipped).
run_tasks(c, t, pending) ==
    cli \o lock(PROCESSORS(c))
    \o (IF pending
        THEN lock(inner(t)) \o unlock(inner(t))
             \o lock(inner(t)) \o Ins("task_status", inner(t), 0)
        ELSE <<>>)
    \o fetch_task(c)
    \o Ins("if_task", no_lock, 5)
    \o lock(inner(t)) \o set_status(t, "Running") \o unlock(inner(t))
    \o unlock(PROCESSORS(c)) \o Ins("switch_to", no_lock, 0)
    \o unlock(PROCESSORS(c)) \o sti

\* A hart after boot (rust_main): in the loop of run_tasks with interrupts
\* enabled; its task is Ready and in a ready queue, and the first time the
\* task runs it starts with the sret of trap_return.  status: the status of
\* the hart's task; timeout: the timeout queue holds an entry of the task;
\* ready: a ready queue holds the task; fetched: fetch_task has returned it.
NewHart ==
    [mode |-> "sched", path |-> <<>>, resume |-> sret("user"), sie |-> TRUE,
     saved |-> <<TRUE>>, all_checked |-> TRUE, pending |-> FALSE,
     status |-> "Ready", timeout |-> FALSE, ready |-> TRUE,
     fetched |-> FALSE]

\* The locks hart c holds.
Holds(c) == {l \in Locks : owner[l] = c}
IsRunq(l) == l[1] = "TASK_MANAGERS"
IsInner(l) == l[1] = "inner"

\* What the lock level leaves alone.
datavars == <<tcb, mgr, cpu, futex, word, timeouts, now, prog, obs, panic,
              memvars, oomvars, bitmap_allocator>>

\* The operation hart c is at.
At(c, kinds) == hart[c].path # <<>> /\ Head(hart[c].path).k \in kinds
Rest(c, n) == SubSeq(hart[c].path, n + 1, Len(hart[c].path))

FirstEndLoop(p) ==
    CHOOSE i \in 1 .. Len(p) :
       p[i].k = "end_loop" /\ \A j \in 1 .. (i - 1) : p[j].k # "end_loop"

\* The operations that touch nothing but the hart itself: sstatus.SIE
\* (InterruptGuard, disable_interrupts, restore_interrupts, trap entry and
\* sret) and the control flow of the path.  h is the hart, the result is the
\* hart after the operation at the head of its path.
LocalKinds ==
    {"guard", "drop_guard", "cli", "sti", "trap", "sret",
     "skip", "if_task", "unless_task", "loop", "return", "end_loop"}

local_op(h) ==
    LET o == Head(h.path)
        rest == Tail(h.path)
        d == disable_interrupts(h.sie)
    IN CASE o.k = "guard" ->
              [h EXCEPT !.path = rest, !.sie = d.sie,
                        !.saved = <<d.was_enabled>> \o @]
         [] o.k = "drop_guard" ->
              [h EXCEPT !.path = rest,
                        !.sie = restore_interrupts(@, Head(h.saved)),
                        !.saved = Tail(@)]
         [] o.k = "cli" -> [h EXCEPT !.path = rest, !.sie = d.sie]
         [] o.k = "sti" ->
              [h EXCEPT !.path = rest, !.sie = restore_interrupts(@, TRUE)]
         [] o.k = "trap" ->
              [h EXCEPT !.path = rest, !.sie = FALSE, !.saved = <<h.sie>> \o @]
         [] o.k = "sret" ->
              [h EXCEPT !.path = rest, !.sie = Head(h.saved),
                        !.saved = Tail(@), !.mode = o.n]
         [] o.k = "skip" ->
              [h EXCEPT !.path = SubSeq(rest, o.n + 1, Len(rest))]
         [] o.k = "if_task" ->
              IF h.fetched THEN [h EXCEPT !.path = rest]
              ELSE [h EXCEPT !.path = SubSeq(rest, o.n + 1, Len(rest))]
         [] o.k = "unless_task" ->
              IF h.fetched
              THEN [h EXCEPT !.path = SubSeq(rest, o.n + 1, Len(rest))]
              ELSE [h EXCEPT !.path = rest]
         [] o.k = "loop" -> [h EXCEPT !.path = rest, !.all_checked = TRUE]
         [] o.k = "return" ->
              [h EXCEPT !.path = SubSeq(h.path, FirstEndLoop(h.path) + 1,
                                        Len(h.path)),
                        !.all_checked = TRUE]
         [] OTHER ->
              IF h.all_checked THEN [h EXCEPT !.path = rest]
              ELSE [h EXCEPT !.path = wake_loop(o.l[2]) \o rest]

\* The steps of a hart that no other hart and no interrupt can tell from
\* the step before them are taken together with it: the local operations
\* that leave sstatus.SIE as it is, the drop of a lock guard (always
\* possible, and it only frees a lock) and the lock of the hart's own
\* processor (no other hart takes it).  s = [h: the hart, rel: the locks
\* freed on the way, got: the locks taken on the way].
Quiet(h) ==
    /\ h.path # <<>>
    /\ Head(h.path).k \in LocalKinds \ {"trap", "sret"}
    /\ local_op(h).sie = h.sie

RECURSIVE Settle(_)
Settle(s) ==
    IF s.h.path # <<>> /\ Head(s.h.path).k = "unlock"
    THEN Settle([h |-> [s.h EXCEPT !.path = Tail(@)],
                 rel |-> s.rel \cup {Head(s.h.path).l},
                 got |-> s.got \ {Head(s.h.path).l}])
    ELSE IF /\ s.h.path # <<>> /\ Head(s.h.path).k = "lock"
            /\ Head(s.h.path).l[1] = "PROCESSORS"
    THEN Settle([h |-> [s.h EXCEPT !.path = Tail(@)],
                 rel |-> s.rel \ {Head(s.h.path).l},
                 got |-> s.got \cup {Head(s.h.path).l}])
    ELSE IF Quiet(s.h)
    THEN Settle([h |-> local_op(s.h), rel |-> s.rel, got |-> s.got])
    ELSE s

\* Hart c has taken a step that leaves the harts as hh and the locks as oo.
Settled(c, hh, oo) ==
    LET s == Settle([h |-> hh[c], rel |-> {}, got |-> {}]) IN
    /\ hart' = [hh EXCEPT ![c] = s.h]
    /\ owner' = [l \in Locks |->
                   IF l \in s.got THEN c
                   ELSE IF l \in s.rel THEN NoHart ELSE oo[l]]

\* The hart enters the kernel (or the loop of run_tasks goes round) with the
\* path p ahead of it.
Enter(c, p) ==
    /\ hart[c].path = <<>>
    /\ Settled(c, [hart EXCEPT ![c].path = p, ![c].pending = FALSE], owner)
    /\ UNCHANGED datavars

\* sys_execve
SysExecve(c) ==
    \E sib \in Parked \cup {NoTask}, at \in CPUs :
       /\ sib = NoTask => at = 0
       /\ hart[c].mode = "user"
       /\ Enter(c, trap \o load_elf(c, sib, at) \o sret("user"))

\* sys_futex FUTEX_WAKE: Futex::wake under the lock of the futex table
SysFutexWake(c) ==
    LET wake == lock(futex_table) \o wake_at_most_path(c, futex_table)
                \o unlock(futex_table)
    IN /\ hart[c].mode = "user"
       /\ Enter(c, trap \o wake \o sret("user"))

\* do_futex_wait with a timeout: the waiter is queued, the deadline is
\* registered, the task blocks; when it runs again it looks at its signals
SysFutexWait(c) ==
    LET do_futex_wait ==
            lock(futex_table) \o wait_with_timeout(c) \o unlock(futex_table)
            \o suspend_or_block(c, c, "Interruptible")
            \o lock(inner(c)) \o unlock(inner(c))
    IN /\ hart[c].mode = "user"
       /\ Enter(c, trap \o do_futex_wait \o sret("user"))

\* sys_clone with CLONE_THREAD: the new thread (its last_cpu is 0) is
\* handed to add_task
SysClone(c) ==
    \E child \in Parked :
       /\ hart[c].mode = "user"
       /\ Enter(c, trap \o add_task(c, child, 0) \o sret("user"))

\* sys_kill
SysKill(c) ==
    \E is_current \in BOOLEAN :
       /\ hart[c].mode = "user"
       /\ Enter(c, trap \o find_task_by_pid(c, is_current, MAX_CPU_NUM)
                        \o sret("user"))

\* sys_exit_group
SysExitGroup(c) ==
    \E p \in (CPUs \ {c}) \cup {NoTask} :
       /\ hart[c].mode = "user"
       /\ Enter(c, trap \o exit_group_and_run_next(c, c, p))

\* trap_handler, a timer interrupt from user mode
UserTimer(c) ==
    LET tick == do_wake_expired(c) \o suspend_or_block(c, c, "Ready")
    IN /\ hart[c].mode = "user"
       /\ Enter(c, trap \o tick \o sret("user"))

\* trap_from_kernel, a timer interrupt while the hart is in run_tasks with
\* interrupts enabled
KernelTimer(c) ==
    /\ hart[c].sie
    /\ hart[c].mode = "sched"
    /\ Enter(c, trap \o do_wake_expired(c) \o sret("sched"))

\* The loop of run_tasks goes round once.
RunTasks(c) ==
    LET pending == hart[c].pending
    IN /\ hart[c].mode = "sched"
       /\ Enter(c, run_tasks(c, c, pending))

\* Mutex::lock returns: the lock was free.  A state in which the hart has
\* just taken a run queue lock or an inner lock is kept as it is.
Acquire(c) ==
    /\ At(c, {"lock"})
    /\ LET l == Head(hart[c].path).l IN
       /\ owner[l] = NoHart
       /\ IF IsRunq(l) \/ IsInner(l)
          THEN /\ owner' = [owner EXCEPT ![l] = c]
               /\ hart' = [hart EXCEPT ![c].path = Rest(c, 1)]
          ELSE Settled(c, [hart EXCEPT ![c].path = Rest(c, 1)],
                       [owner EXCEPT ![l] = c])
    /\ UNCHANGED datavars

\* Mutex::try_lock
TryLock(c) ==
    /\ At(c, {"try_lock"})
    /\ LET o == Head(hart[c].path) IN
       IF owner[o.l] = NoHart
       THEN /\ owner' = [owner EXCEPT ![o.l] = c]
            /\ hart' = [hart EXCEPT ![c].path = Rest(c, 1)]
       ELSE Settled(c, [hart EXCEPT
                  ![c].path = Rest(c, 1 + o.n),
                  ![c].all_checked =
                      IF \E i \in 1 .. Len(hart[c].path) :
                            hart[c].path[i].k = "end_loop"
                      THEN FALSE ELSE @], owner)
    /\ UNCHANGED datavars

\* The guard of a lock is dropped.
Release(c) ==
    /\ At(c, {"unlock"})
    /\ Settled(c, hart, owner)
    /\ UNCHANGED datavars

\* sstatus.SIE changes, the path branches.
Local(c) ==
    /\ At(c, LocalKinds)
    /\ Settled(c, [hart EXCEPT ![c] = local_op(@)], owner)
    /\ UNCHANGED datavars

\* The tasks with an entry in the wait queue q.  A task sleeps in
\* do_futex_wait only: the futex queue holds the tasks that are
\* Interruptible (the entry a task leaves behind when something else wakes
\* it is not followed).
Waiting(q) ==
    IF q = TIMEOUT_WAITQUEUE THEN {u \in CPUs : hart[u].timeout}
    ELSE {u \in CPUs : hart[u].status = "Interruptible"}

\* The loops of wake_at_most and wake_expired: the queue has nothing more
\* for the loop, or its first entry is popped and handled.
Pop(c) ==
    /\ At(c, {"pop"})
    /\ LET q == Head(hart[c].path).l IN
       \/ Settled(c, [hart EXCEPT ![c].path = Rest(c, 1)], owner)
       \/ \E t \in Waiting(q) :
             Settled(c, [hart EXCEPT
                           ![t].timeout = IF q = TIMEOUT_WAITQUEUE
                                          THEN FALSE ELSE @,
                           ![c].path = wake_waiter(c, t) \o hart[c].path],
                     owner)
    /\ UNCHANGED datavars

\* The reads and writes of the task status and of the timeout queue.
Data(c) ==
    /\ At(c, {"set_status", "task_status", "notify", "push", "enqueue",
              "wake"})
    /\ LET o == Head(hart[c].path)
           h == hart[c]
           t == o.l[2]
       IN Settled(c,
             CASE o.k = "set_status" ->
                    [hart EXCEPT ![t].status = o.n, ![c].path = Rest(c, 1)]
               [] o.k = "task_status" ->
                    [hart EXCEPT ![c].path = publish(c, t, h.status) \o Rest(c, 1)]
               [] o.k = "notify" ->
                    IF hart[t].status = "Interruptible"
                    THEN [hart EXCEPT
                            ![t].status = "Ready",
                            ![c].path = unlock(inner(t))
                                        \o wake_interruptible_path(t)
                                        \o Rest(c, 1)]
                    ELSE [hart EXCEPT ![c].path = unlock(inner(t)) \o Rest(c, 1)]
               [] o.k = "push" ->
                    [hart EXCEPT ![o.n].timeout = TRUE, ![c].path = Rest(c, 1)]
               [] o.k = "enqueue" ->
                    [hart EXCEPT ![t].ready = TRUE, ![c].path = Rest(c, 1)]
               [] OTHER ->
                    IF hart[t].status = "Interruptible"
                    THEN [hart EXCEPT ![t].status = "Ready",
                                      ![c].path = Rest(c, 1)]
                    ELSE [hart EXCEPT ![c].path = Rest(c, 1 + o.n)],
             owner)
    /\ UNCHANGED datavars

\* The ready queues.  The local fetch and the steal find the task of the
\* hart only if a ready queue holds it (the one they look at, or not);
\* try_wake_interruptible adds the task unless the manager already holds it.
Probe(c) ==
    /\ At(c, {"fetch", "steal", "try_wake"})
    /\ LET o == Head(hart[c].path)
           t == o.l[2]
       IN \E found \in BOOLEAN :
          /\ found => hart[t].ready
          /\ Settled(c,
                CASE o.k = "fetch" ->
                       IF found
                       THEN [hart EXCEPT ![c].fetched = TRUE,
                                         ![c].ready = FALSE,
                                         ![c].path = Rest(c, 1 + o.n)]
                       ELSE [hart EXCEPT ![c].path = Rest(c, 1)]
                  [] o.k = "steal" ->
                       [hart EXCEPT ![c].fetched = found,
                                    ![c].ready = IF found THEN FALSE ELSE @,
                                    ![c].path = Rest(c, 1)]
                  [] OTHER ->
                       [hart EXCEPT ![c].path =
                          IF found THEN Rest(c, 1 + o.n) ELSE Rest(c, 1)],
                owner)
    /\ UNCHANGED datavars

\* __switch: from the task to the idle context of the hart (schedule) and
\* from the idle context to the task (run_tasks).  A task that has exited
\* leaves no pending task; the next task of the hart is a new one, in the
\* ready queue.
Switch(c) ==
    /\ At(c, {"switch", "switch_to"})
    /\ LET o == Head(hart[c].path)
           h == hart[c]
       IN Settled(c, [hart EXCEPT ![c] =
             IF o.k = "switch_to"
             THEN [h EXCEPT !.path = h.resume, !.resume = <<>>,
                            !.fetched = FALSE]
             ELSE IF o.n
             THEN [h EXCEPT !.path = <<>>, !.resume = Rest(c, 1),
                            !.mode = "sched", !.pending = TRUE]
             ELSE [h EXCEPT !.path = <<>>, !.resume = sret("user"),
                            !.saved = <<TRUE>>, !.mode = "sched",
                            !.status = "Ready", !.timeout = FALSE,
                            !.ready = TRUE]], owner)
    /\ UNCHANGED datavars

HartLocks(c) ==
    \/ SysExecve(c) \/ SysFutexWake(c) \/ SysFutexWait(c) \/ SysKill(c)
    \/ SysClone(c) \/ SysExitGroup(c) \/ UserTimer(c) \/ KernelTimer(c)
    \/ RunTasks(c)
    \/ Acquire(c) \/ TryLock(c) \/ Release(c) \/ Local(c)
    \/ Pop(c) \/ Data(c) \/ Probe(c) \/ Switch(c)

NextLocks == \E c \in CPUs : HartLocks(c)

\* -------------------------------------------------- BitmapFrameAllocator
\* A u64 word of the bitmap is the set of its bits that are 1.  A usize that
\* wraps is kept as its residue modulo 2^64 nearest to zero: -1 is
\* usize::MAX.  debug_assertions is the build the allocator is compiled in.
BITS_PER_WORD == 64
Bits == 0 .. (BITS_PER_WORD - 1)

\* BitmapFrameAllocator::new
bitmap_new(debug_assertions) ==
    [bitmap |-> <<>>, start_ppn |-> 0, total_frames |-> 0, alloc_hint |-> 0,
     allocated_count |-> 0, msg |-> "", debug_assertions |-> debug_assertions]

\* BitmapFrameAllocator::init
bitmap_init(a, start, end) ==
    IF ~(start < end) THEN [a EXCEPT !.msg = "Invalid frame range"]
    ELSE LET total_frames == end - start
             word_count == (total_frames + BITS_PER_WORD - 1) \div BITS_PER_WORD
             valid_bits_in_last == total_frames % BITS_PER_WORD
         IN [a EXCEPT
                !.start_ppn = start, !.total_frames = total_frames,
                !.alloc_hint = 0, !.allocated_count = 0,
                !.bitmap = [w \in 1 .. word_count |->
                               IF w = word_count /\ valid_bits_in_last # 0
                               THEN {b \in Bits : b >= valid_bits_in_last}
                               ELSE {}]]

\* BitmapFrameAllocator::ppn_to_index; NoFrame is None
ppn_to_index(a, ppn) ==
    IF ppn >= a.start_ppn /\ ppn < a.start_ppn + a.total_frames
    THEN ppn - a.start_ppn ELSE NoFrame

\* The bit of frame idx in the bitmap.
BitSet(a, idx) ==
    (idx % BITS_PER_WORD) \in a.bitmap[(idx \div BITS_PER_WORD) + 1]

SetBits(a, frames) ==
    [a EXCEPT !.bitmap = [w \in 1 .. Len(a.bitmap) |->
         a.bitmap[w] \cup {f % BITS_PER_WORD :
                              f \in {g \in frames : g \div BITS_PER_WORD = w - 1}}]]

\* BitmapFrameAllocator::alloc_frame: [a, ppn]
alloc_frame(a) ==
    LET word_count == Len(a.bitmap)
        word_idx(offset) == (a.alloc_hint + offset) % word_count
        bit_idx(offset) ==
            CHOOSE b \in Bits \ a.bitmap[word_idx(offset) + 1] :
               \A b2 \in Bits \ a.bitmap[word_idx(offset) + 1] : b <= b2
        frame_idx(offset) == word_idx(offset) * BITS_PER_WORD + bit_idx(offset)
        hits == {offset \in 0 .. (word_count - 1) :
                    /\ a.bitmap[word_idx(offset) + 1] # Bits
                    /\ frame_idx(offset) < a.total_frames}
    IN IF word_count = 0 \/ hits = {} THEN [a |-> a, ppn |-> NoFrame]
       ELSE LET offset == CHOOSE o \in hits : \A o2 \in hits : o <= o2 IN
            [a |-> [SetBits(a, {frame_idx(offset)}) EXCEPT
                       !.allocated_count = @ + 1,
                       !.alloc_hint = word_idx(offset)],
             ppn |-> a.start_ppn + frame_idx(offset)]

\* BitmapFrameAllocator::alloc_contiguous: [a, ppn]
alloc_contiguous(a, count) ==
    IF count = 0 THEN [a |-> a, ppn |-> NoFrame]
    ELSE IF count = 1 THEN alloc_frame(a)
    ELSE LET ends == {idx \in 0 .. (a.total_frames - 1) :
                         /\ idx - count + 1 >= 0
                         /\ \A i \in (idx - count + 1) .. idx : ~BitSet(a, i)}
         IN IF ends = {} THEN [a |-> a, ppn |-> NoFrame]
            ELSE LET idx == CHOOSE e \in ends : \A e2 \in ends : e <= e2
                     start_idx == idx - count + 1
                 IN [a |-> [SetBits(a, start_idx .. (start_idx + count - 1))
                               EXCEPT !.allocated_count = @ + count],
                     ppn |-> a.start_ppn + start_idx]

\* BitmapFrameAllocator::dealloc_frame
dealloc_frame(a, ppn) ==
    LET frame_idx == ppn_to_index(a, ppn)
        word_idx == frame_idx \div BITS_PER_WORD
        bit_idx == frame_idx % BITS_PER_WORD
    IN IF frame_idx = NoFrame
       THEN [a EXCEPT !.msg = "BitmapAllocator: ppn out of range"]
       ELSE IF a.debug_assertions /\ ~BitSet(a, frame_idx)
       THEN [a EXCEPT !.msg = "BitmapAllocator: double free of ppn"]
       ELSE [a EXCEPT !.bitmap[word_idx + 1] = @ \ {bit_idx},
                      !.allocated_count = @ - 1,
                      !.alloc_hint = word_idx]

\* BitmapFrameAllocator::is_allocated
is_allocated(a, ppn) ==
    ppn_to_index(a, ppn) # NoFrame /\ BitSet(a, ppn_to_index(a, ppn))

\* BitmapFrameAllocator::allocated_frames
allocated_frames(a) == a.allocated_count

\* What the kernel starts with besides the scheduler and the frame allocator.
InitOther ==
    /\ hart = [c \in CPUs |-> NewHart]
    /\ owner = [l \in Locks |-> NoHart]
    /\ active_tracker = [c \in CPUs |-> {}]
    /\ cleaned = {}
    /\ bitmap_allocator = bitmap_new(FALSE)

\* ------------------------------------------------------------------- start
\* add_initproc on the boot hart 0: initproc is queued, every hart is at the
\* top of run_tasks.
InitScheduler ==
    LET tc0 == [t \in Tasks |-> IF t = INITPROC
                                THEN NewTcb(INITPROC, NoTask, FALSE, FALSE)
                                ELSE Unborn]
        r == AddTo(0, INITPROC, [c \in CPUs |-> NewManager], tc0)
    IN /\ mgr = r[1]
       /\ tcb = r[2]
       /\ cpu = [c \in CPUs |-> NewProcessor]
       /\ futex = [a \in Addrs |-> <<>>]
       /\ word = [a \in Addrs |-> 0]
       /\ timeouts = {}
       /\ now = 1
       /\ obs = [t \in Tasks |-> ""]
       /\ panic = ""

\* The kernel after boot, in the build without MODE=debug and without the
\* oom_handler feature.
InitKernel ==
    InitScheduler /\ InitFrameAllocator /\ build = ReleaseBuild /\ InitOther

\* Every task may do any operation, any number of times.
AnyProgram == [t \in Tasks |-> <<AnyOp>>]

Init == InitKernel /\ prog = AnyProgram

\* Threads of initproc that wait and wake on the futex word "a".
Next ==
    \/ \E c \in CPUs : TakePending(c)
    \/ \E c \in CPUs : ClearOnCpu(c)
    \/ \E c \in CPUs : ReadStatus(c)
    \/ \E c \in CPUs : PublishReady(c)
    \/ \E c \in CPUs : PublishInterruptible(c)
    \/ \E c \in CPUs : PublishPanic(c)
    \/ \E c \in CPUs : FetchLocal(c)
    \/ \E c \in CPUs : Steal(c)
    \/ \E c \in CPUs : SpinOnCpu(c)
    \/ \E c \in CPUs : Dispatch(c)
    \/ \E c \in CPUs : SwitchTo(c)
    \/ \E c \in CPUs : TimerTick(c)
    \/ \E c \in CPUs : Clone(c, ThreadFlags)
    \/ \E c \in CPUs : UserStore(c, "a", 1)
    \/ \E c \in CPUs, v \in {0, 1} : FutexWaitCheck(c, "a", v, 0)
    \/ \E c \in CPUs : FutexWaitEnqueue(c)
    \/ \E c \in CPUs : FutexWaitBlock(c)
    \/ \E c \in CPUs, n \in {1, 2} : FutexWake(c, "a", n)

Spec == Init /\ [][Next]_vars

\* ------------------------------------------------------ waits with timeouts
\* initproc clones a thread and waits twice on "a", the first time with a
\* timeout; the thread wakes one waiter.
TimedProgram ==
    [t \in Tasks |->
        CASE t = 0 -> <<Op("clone", "", "", 1, 0), Op("wait", "a", "", 0, 1),
                        Op("wait", "a", "", 0, 0)>>
          [] t = 1 -> <<Op("wake", "a", "", 1, 0)>>
          [] OTHER -> <<>>]

InitTimed == InitKernel /\ prog = TimedProgram

NextTimed ==
    \/ \E c \in CPUs : TakePending(c)
    \/ \E c \in CPUs : ClearOnCpu(c)
    \/ \E c \in CPUs : ReadStatus(c)
    \/ \E c \in CPUs : PublishReady(c)
    \/ \E c \in CPUs : PublishInterruptible(c)
    \/ \E c \in CPUs : PublishPanic(c)
    \/ \E c \in CPUs : FetchLocal(c)
    \/ \E c \in CPUs : Steal(c)
    \/ \E c \in CPUs : SpinOnCpu(c)
    \/ \E c \in CPUs : Dispatch(c)
    \/ \E c \in CPUs : SwitchTo(c)
    \/ \E c \in CPUs : DoubleRunPanic(c)
    \/ \E c \in CPUs : TimerTick(c)
    \/ \E c \in CPUs : KernelTick(c)
    \/ AdvanceTime
    \/ \E c \in CPUs : Clone(c, ThreadFlags)
    \/ \E c \in CPUs, d \in {0, 1} : FutexWaitCheck(c, "a", 0, d)
    \/ \E c \in CPUs : FutexWaitEnqueue(c)
    \/ \E c \in CPUs : FutexWaitBlock(c)
    \/ \E c \in CPUs : FutexWake(c, "a", 1)

SpecTimed == InitTimed /\ [][NextTimed]_vars

\* ------------------------------------------------- two threads, one per hart
\* The state in which initproc (pid 0) and a thread it cloned (pid 1) run on
\* different harts: boot at time 1, hart 0 dispatches initproc, initproc
\* clones the thread and is preempted at time 2, hart 1 steals initproc and
\* hart 0 takes the thread.
Run(tc, t, c, t_now) ==
    [tc EXCEPT ![t].running_on_cpu = c, ![t].task_status = "Running",
               ![t].exec_start = t_now, ![t].last_cpu = c, ![t].on_cpu = TRUE]

InitTwoRunning ==
    LET tc0 == [t \in Tasks |-> IF t = INITPROC
                                THEN NewTcb(INITPROC, NoTask, FALSE, FALSE)
                                ELSE Unborn]
        boot == AddTo(0, INITPROC, [c \in CPUs |-> NewManager], tc0)
        first == ManagerFetch(boot[1][0])
        born == [Run(boot[2], 0, 0, 1) EXCEPT ![1] = [NewTcb(0, NoTask, FALSE, FALSE)
                                                 EXCEPT !.tid = 2]]
        cloned == AddTo(0, 1, [boot[1] EXCEPT ![0] = first.m], born)
        ticked == [cloned[2] EXCEPT
                      ![0] = [update_runtime(cloned[2][0], 2) EXCEPT
                                 !.task_status = "Ready",
                                 !.running_on_cpu = TASK_NOT_RUNNING,
                                 !.on_cpu = FALSE]]
        back == AddTo(0, 0, cloned[1], ticked)
        stolen == steal_from_cfs(back[1][0])
        local == ManagerFetch(stolen.m)
    IN /\ mgr = [back[1] EXCEPT ![0] = local.m]
       /\ tcb = Run(Run(back[2], stolen.task, 1, 2), local.task, 0, 2)
       /\ cpu = [c \in CPUs |->
                    [NewProcessor EXCEPT !.pc = "user",
                        !.current = IF c = 0 THEN local.task ELSE stolen.task]]
       /\ futex = [a \in Addrs |-> <<>>]
       /\ word = [a \in Addrs |-> 0]
       /\ timeouts = {}
       /\ now = 2
       /\ obs = [t \in Tasks |-> ""]
       /\ panic = ""
       /\ InitFrameAllocator /\ build = ReleaseBuild /\ InitOther

\* --------------------------------------------------- the wait/wake scenario
\* Thread A (pid 0) stores 1 and waits for it; thread B (pid 1) stores 2,
\* wakes one waiter and exits.
ThreadA == 0
ThreadB == 1
ScenarioProgram ==
    [t \in Tasks |->
        CASE t = ThreadA -> <<Op("store", "a", "", 1, 0), Op("wait", "a", "", 1, 0)>>
          [] t = ThreadB -> <<Op("store", "a", "", 2, 0), Op("wake", "a", "", 1, 0),
                              Op("exit", "", "", 0, 0)>>
          [] OTHER -> <<>>]

InitWaitWake == InitTwoRunning /\ prog = ScenarioProgram

\* What hart c can do in the scenario.
HartWaitWake(c) ==
    \/ TakePending(c)
    \/ ClearOnCpu(c)
    \/ ReadStatus(c)
    \/ PublishReady(c)
    \/ PublishInterruptible(c)
    \/ PublishPanic(c)
    \/ FetchLocal(c)
    \/ SpinOnCpu(c)
    \/ Dispatch(c)
    \/ SwitchTo(c)
    \/ DoubleRunPanic(c)
    \/ \E v \in {1, 2} : UserStore(c, "a", v)
    \/ FutexWaitCheck(c, "a", 1, 0)
    \/ FutexWaitEnqueue(c)
    \/ FutexWaitBlock(c)
    \/ FutexWake(c, "a", 1)
    \/ Exit(c)

NextWaitWake == \E c \in CPUs : HartWaitWake(c)

\* Every hart keeps executing: its dispatcher loop or the task it runs.
SpecWaitWake ==
    InitWaitWake /\ [][NextWaitWake]_vars
    /\ \A c \in CPUs : WF_vars(HartWaitWake(c))

\* ------------------------------------------------------------------ requeue
\* initproc clones a third thread and waits on "a", the second thread waits
\* on "a", the third thread calls requeue once.
RequeueProgram(a2, n_wake, n_move) ==
    [t \in Tasks |->
        CASE t = 0 -> <<Op("clone", "", "", 1, 0), Op("wait", "a", "", 0, 0)>>
          [] t = 1 -> <<Op("wait", "a", "", 0, 0)>>
          [] OTHER -> <<Op("requeue", "a", a2, n_wake, n_move)>>]

InitRequeue ==
    /\ InitTwoRunning
    /\ \E a2 \in Addrs, n_wake \in {0, 1}, n_move \in {0, 1} :
          prog = RequeueProgram(a2, n_wake, n_move)

NextRequeue ==
    \/ \E c \in CPUs : TakePending(c)
    \/ \E c \in CPUs : ClearOnCpu(c)
    \/ \E c \in CPUs : ReadStatus(c)
    \/ \E c \in CPUs : PublishReady(c)
    \/ \E c \in CPUs : PublishInterruptible(c)
    \/ \E c \in CPUs : PublishPanic(c)
    \/ \E c \in CPUs : FetchLocal(c)
    \/ \E c \in CPUs : Steal(c)
    \/ \E c \in CPUs : SpinOnCpu(c)
    \/ \E c \in CPUs : Dispatch(c)
    \/ \E c \in CPUs : SwitchTo(c)
    \/ \E c \in CPUs : TimerTick(c)
    \/ \E c \in CPUs : Clone(c, ThreadFlags)
    \/ \E c \in CPUs : FutexWaitCheck(c, "a", 0, 0)
    \/ \E c \in CPUs : FutexWaitEnqueue(c)
    \/ \E c \in CPUs : FutexWaitBlock(c)
    \/ \E c \in CPUs, a2 \in Addrs, n_wake \in {0, 1}, n_move \in {0, 1} :
          FutexRequeue(c, "a", a2, n_wake, n_move)

SpecRequeue == InitRequeue /\ [][NextRequeue]_vars

\* --------------------------------------------------------------- exit_group
\* initproc clones a third thread and waits on "a"; the second thread calls
\* exit_group.  All three are one thread group.  No task calls exit, so every
\* Zombie was made by exit_group.
ExitProgram ==
    [t \in Tasks |->
        CASE t = 0 -> <<Op("clone", "", "", 1, 0), Op("wait", "a", "", 0, 0)>>
          [] t = 1 -> <<Op("exit_group", "", "", 0, 0)>>
          [] OTHER -> <<>>]

InitExit == InitTwoRunning /\ prog = ExitProgram

NextExit ==
    \/ \E c \in CPUs : TakePending(c)
    \/ \E c \in CPUs : ClearOnCpu(c)
    \/ \E c \in CPUs : ReadStatus(c)
    \/ \E c \in CPUs : PublishReady(c)
    \/ \E c \in CPUs : PublishInterruptible(c)
    \/ \E c \in CPUs : FetchLocal(c)
    \/ \E c \in CPUs : Steal(c)
    \/ \E c \in CPUs : SpinOnCpu(c)
    \/ \E c \in CPUs : Dispatch(c)
    \/ \E c \in CPUs : SwitchTo(c)
    \/ \E c \in CPUs : TimerTick(c)
    \/ \E c \in CPUs : Clone(c, ThreadFlags)
    \/ \E c \in CPUs : FutexWaitCheck(c, "a", 0, 0)
    \/ \E c \in CPUs : FutexWaitEnqueue(c)
    \/ \E c \in CPUs : FutexWaitBlock(c)
    \/ \E c \in CPUs : ExitGroup(c)

SpecExit == InitExit /\ [][NextExit]_vars

\* ------------------------------------------------------- scheduling classes
\* initproc (CFS) clones a third thread, wakes one waiter of "a" and goes on
\* computing; the second thread becomes SCHED_FIFO with priority 50 and waits
\* on "a"; the third thread becomes SCHED_IDLE.
ClassProgram ==
    [t \in Tasks |->
        CASE t = 0 -> <<Op("clone", "", "", 1, 0), Op("wake", "a", "", 1, 0),
                        Op("store", "a", "", 1, 0)>>
          [] t = 1 -> <<Op("setpolicy", "Fifo", "", 50, 0),
                        Op("wait", "a", "", 0, 0), Op("store", "b", "", 1, 0)>>
          [] OTHER -> <<Op("setpolicy", "Idle", "", 0, 0),
                        Op("store", "b", "", 2, 0)>>]

InitClasses == InitTwoRunning /\ prog = ClassProgram

NextClasses ==
    \/ \E c \in CPUs : TakePending(c)
    \/ \E c \in CPUs : ClearOnCpu(c)
    \/ \E c \in CPUs : ReadStatus(c)
    \/ \E c \in CPUs : PublishReady(c)
    \/ \E c \in CPUs : PublishInterruptible(c)
    \/ \E c \in CPUs : PublishPanic(c)
    \/ \E c \in CPUs : FetchLocal(c)
    \/ \E c \in CPUs : Steal(c)
    \/ \E c \in CPUs : SpinOnCpu(c)
    \/ \E c \in CPUs : Dispatch(c)
    \/ \E c \in CPUs : SwitchTo(c)
    \/ \E c \in CPUs : DoubleRunPanic(c)
    \/ \E c \in CPUs : TimerTick(c)
    \/ \E c \in CPUs : Clone(c, ThreadFlags)
    \/ \E c \in CPUs, policy \in {"Fifo", "Idle"}, priority \in {0, 50} :
          SetPolicy(c, policy, priority)
    \/ \E c \in CPUs, a \in Addrs, v \in {1, 2} : UserStore(c, a, v)
    \/ \E c \in CPUs : FutexWaitCheck(c, "a", 0, 0)
    \/ \E c \in CPUs : FutexWaitEnqueue(c)
    \/ \E c \in CPUs : FutexWaitBlock(c)
    \/ \E c \in CPUs : FutexWake(c, "a", 1)

SpecClasses == InitClasses /\ [][NextClasses]_vars

\* ------------------------------------------------------ real-time policies
\* initproc clones two threads, becomes SCHED_RR with priority 50 and waits
\* on "a"; the first thread becomes SCHED_FIFO with the same priority, wakes
\* one waiter of "a" and goes on computing; the second thread stays CFS.
RtProgram ==
    [t \in Tasks |->
        CASE t = 0 -> <<Op("clone", "", "", 1, 0), Op("clone", "", "", 1, 0),
                        Op("setpolicy", "RoundRobin", "", 50, 0),
                        Op("wait", "a", "", 0, 0), Op("store", "a", "", 1, 0)>>
          [] t = 1 -> <<Op("setpolicy", "Fifo", "", 50, 0),
                        Op("wake", "a", "", 1, 0), Op("store", "b", "", 1, 0)>>
          [] OTHER -> <<Op("store", "b", "", 2, 0)>>]

InitRt == InitKernel /\ prog = RtProgram

NextRt ==
    \/ \E c \in CPUs : TakePending(c)
    \/ \E c \in CPUs : ClearOnCpu(c)
    \/ \E c \in CPUs : ReadStatus(c)
    \/ \E c \in CPUs : PublishReady(c)
    \/ \E c \in CPUs : PublishInterruptible(c)
    \/ \E c \in CPUs : PublishPanic(c)
    \/ \E c \in CPUs : FetchLocal(c)
    \/ \E c \in CPUs : Steal(c)
    \/ \E c \in CPUs : SpinOnCpu(c)
    \/ \E c \in CPUs : Dispatch(c)
    \/ \E c \in CPUs : SwitchTo(c)
    \/ \E c \in CPUs : DoubleRunPanic(c)
    \/ \E c \in CPUs : TimerTick(c)
    \/ AdvanceTime
    \/ \E c \in CPUs : Clone(c, ThreadFlags)
    \/ \E c \in CPUs, policy \in {"Fifo", "RoundRobin"} : SetPolicy(c, policy, 50)
    \/ \E c \in CPUs, a \in Addrs, v \in {1, 2} : UserStore(c, a, v)
    \/ \E c \in CPUs : FutexWaitCheck(c, "a", 0, 0)
    \/ \E c \in CPUs : FutexWaitEnqueue(c)
    \/ \E c \in CPUs : FutexWaitBlock(c)
    \/ \E c \in CPUs : FutexWake(c, "a", 1)

SpecRt == InitRt /\ [][NextRt]_vars


\* ------------------------------------------------------------ CFS latency
\* The timer interrupts of a hart are NSEC_PER_SEC / TICKS_PER_SEC apart.
TickIntervalNs == NSEC_PER_SEC \div TICKS_PER_SEC

\* A whole latency period passes while every hart executes user code and no
\* timer interrupt arrives: the tick interval is longer than the period.
LatencyPeriodPasses ==
    /\ ~Halted
    /\ SCHED_LATENCY_NS <= TickIntervalNs
    /\ now < SCHED_LATENCY_NS
    /\ \A c \in CPUs : cpu[c].pc = "user"
    /\ now' = now + SCHED_LATENCY_NS
    /\ UNCHANGED <<othervars, memvars, tcb, mgr, cpu, futex, word, timeouts, prog, obs, panic>>

\* initproc clones two threads; the three CFS tasks compute.
FairProgram ==
    [t \in Tasks |->
        CASE t = 0 -> <<Op("clone", "", "", 1, 0), Op("clone", "", "", 1, 0),
                        Op("store", "a", "", 1, 0)>>
          [] t = 1 -> <<Op("store", "b", "", 1, 0)>>
          [] OTHER -> <<Op("store", "b", "", 2, 0)>>]

InitFair == InitKernel /\ prog = FairProgram

NextFair ==
    \/ \E c \in CPUs : TakePending(c)
    \/ \E c \in CPUs : ClearOnCpu(c)
    \/ \E c \in CPUs : ReadStatus(c)
    \/ \E c \in CPUs : PublishReady(c)
    \/ \E c \in CPUs : FetchLocal(c)
    \/ \E c \in CPUs : Steal(c)
    \/ \E c \in CPUs : SpinOnCpu(c)
    \/ \E c \in CPUs : Dispatch(c)
    \/ \E c \in CPUs : SwitchTo(c)
    \/ \E c \in CPUs : TimerTick(c)
    \/ AdvanceTime
    \/ LatencyPeriodPasses
    \/ \E c \in CPUs : Clone(c, ThreadFlags)
    \/ \E c \in CPUs, a \in Addrs, v \in {1, 2} : UserStore(c, a, v)

SpecFair == InitFair /\ [][NextFair]_vars


\* --------------------------------------------------------- physical memory
\* The frame allocator and its users, in any build; no task runs.
InitMem ==
    /\ InitScheduler /\ prog = [t \in Tasks |-> <<>>]
    /\ InitFrameAllocator /\ build \in Builds /\ InitOther

NextMem ==
    \/ FrameAlloc
    \/ \E ppn \in PhysFrames : DropFrame(ppn)
    \/ \E num \in 1 .. MaxPages : FrameReserve(num)
    \/ \E ppn \in ImageFrames : DonateImage(ppn)
    \/ \E pages \in 1 .. MaxPages : VirtioShare(pages)
    \/ \E pa \in PhysFrames, pages \in 1 .. MaxPages :
          VirtioUnshare([pa |-> pa, pages |-> pages])

SpecMem == InitMem /\ [][NextMem]_vars

\* ------------------------------------------------------------ system calls
\* initproc clones two threads; the three tasks make system calls with
\* numbers inside and outside the dispatch table.
SyscallProgram ==
    [t \in Tasks |->
        CASE t = 0 -> <<Op("clone", "", "", 1, 0), Op("clone", "", "", 1, 0),
                        Op("syscall", "SYSCALL_GETRANDOM", "", 0, 0),
                        Op("syscall", "SYSCALL_LS", "", 0, 0)>>
          [] t = 1 -> <<Op("syscall", "unassigned", "", 0, 0)>>
          [] OTHER -> <<Op("syscall", "SYSCALL_CLEAR", "", 0, 0),
                        Op("syscall", "SYSCALL_GETRANDOM", "", 0, 0)>>]

InitSyscall == InitKernel /\ prog = SyscallProgram

NextSyscall ==
    \/ \E c \in CPUs : TakePending(c)
    \/ \E c \in CPUs : ClearOnCpu(c)
    \/ \E c \in CPUs : ReadStatus(c)
    \/ \E c \in CPUs : PublishReady(c)
    \/ \E c \in CPUs : FetchLocal(c)
    \/ \E c \in CPUs : Steal(c)
    \/ \E c \in CPUs : SpinOnCpu(c)
    \/ \E c \in CPUs : Dispatch(c)
    \/ \E c \in CPUs : SwitchTo(c)
    \/ \E c \in CPUs : TimerTick(c)
    \/ AdvanceTime
    \/ \E c \in CPUs : Clone(c, ThreadFlags)
    \/ \E c \in CPUs, id \in SyscallIds : Syscall(c, id)

SpecSyscall == InitSyscall /\ [][NextSyscall]_vars

\* --------------------------------------------------------- clone and execve
\* The tasks clone with any combination of the flags and call execve, on
\* both harts.
InitClone == InitKernel /\ prog = [t \in Tasks |-> <<AnyOp>>]

NextClone ==
    \/ \E c \in CPUs : TakePending(c)
    \/ \E c \in CPUs : ClearOnCpu(c)
    \/ \E c \in CPUs : ReadStatus(c)
    \/ \E c \in CPUs : PublishReady(c)
    \/ \E c \in CPUs : FetchLocal(c)
    \/ \E c \in CPUs : Steal(c)
    \/ \E c \in CPUs : SpinOnCpu(c)
    \/ \E c \in CPUs : Dispatch(c)
    \/ \E c \in CPUs : SwitchTo(c)
    \/ \E c \in CPUs : TimerTick(c)
    \/ AdvanceTime
    \/ \E c \in CPUs, flags \in SUBSET CloneFlags : Clone(c, flags)
    \/ \E c \in CPUs : Execve(c)

SpecClone == InitClone /\ [][NextClone]_vars

\* ------------------------------------------------------ a wait with a deadline
\* Thread A (pid 0) waits on "a" with a timeout of one clock unit; thread B
\* (pid 1) computes.  Nobody wakes "a".
DeadlineProgram ==
    [t \in Tasks |->
        IF t = ThreadA THEN <<Op("wait", "a", "", 0, 1)>> ELSE <<>>]

InitDeadline == InitTwoRunning /\ prog = DeadlineProgram

\* The clock goes on past the deadline a wait at MaxTime has registered.
DeadlinePasses ==
    /\ ~Halted
    /\ now = MaxTime
    /\ now' = now + 1
    /\ UNCHANGED <<othervars, memvars, tcb, mgr, cpu, futex, word, timeouts, prog, obs, panic>>

\* What hart c can do.
HartDeadline(c) ==
    \/ TakePending(c)
    \/ ClearOnCpu(c)
    \/ ReadStatus(c)
    \/ PublishReady(c)
    \/ PublishInterruptible(c)
    \/ PublishPanic(c)
    \/ FetchLocal(c)
    \/ SpinOnCpu(c)
    \/ Dispatch(c)
    \/ SwitchTo(c)
    \/ TimerTick(c)
    \/ KernelTick(c)
    \/ FutexWaitCheck(c, "a", 0, 1)
    \/ FutexWaitEnqueue(c)
    \/ FutexWaitBlock(c)

NextDeadline == DeadlinePasses \/ \E c \in CPUs : HartDeadline(c)

\* Every hart keeps executing, the clock keeps running, and the timer
\* interrupts every hart again and again.
SpecDeadline ==
    InitDeadline /\ [][NextDeadline]_vars
    /\ WF_vars(DeadlinePasses)
    /\ \A c \in CPUs : /\ WF_vars(HartDeadline(c))
                        /\ WF_vars(TimerTick(c))
                        /\ WF_vars(KernelTick(c))

\* ------------------------------------------------------------ lock level
\* The kernel paths of the task subsystem as the lock and interrupt
\* operations they perform, one operation a step; what the queues hold is an
\* input of each path.
InitLocks == InitKernel /\ prog = [t \in Tasks |-> <<>>]

SpecLocks == InitLocks /\ [][NextLocks]_vars

\* ------------------------------------------------------------------- claims
\* How often task t occurs in the ready queues and the interruptible queue
\* of manager m.
Occurrences(m, t) ==
    Count(m.rt_queues[10], t) + Count(m.rt_queues[50], t)
    + Cardinality({k \in m.cfs_tasks : k[2] = t})
    + Count(m.idle_queue, t) + Count(m.interruptible_queue, t)

\* C1: at every instant a task is the current task of at most one hart.
C1_OneHartPerTask ==
    \A c1 \in CPUs, c2 \in CPUs :
        (c1 # c2 /\ cpu[c1].current # NoTask) => cpu[c1].current # cpu[c2].current

\* A hart runs a task while another hart, having fetched a second copy of
\* it, stands before the CAS.
C1_Witness ==
    \E c1 \in CPUs, c2 \in CPUs :
        /\ c1 # c2 /\ cpu[c1].current # NoTask
        /\ cpu[c2].pc = "cas" /\ cpu[c2].next = cpu[c1].current

\* C2: over all CPUs a task occurs at most once in the union of the RT, CFS
\* and Idle ready queues and the interruptible queues.
C2_AtMostOneQueue ==
    \A t \in Tasks :
        Occurrences(mgr[0], t) + Occurrences(mgr[1], t) <= 1

\* C3: every queued task has running_on_cpu == NOT_RUNNING (the "in
\* particular" half of: running_on_cpu == NOT_RUNNING iff the task is queued
\* or held in a wait structure).
C3_QueuedNotRunning ==
    \A t \in Tasks, c \in CPUs :
        Occurrences(mgr[c], t) > 0 => tcb[t].running_on_cpu = TASK_NOT_RUNNING

\* C6: no futex wake on the address falls between a waiter's check of the
\* futex word and its sleep.
C6_NoWakeBetweenCheckAndSleep ==
    [][\A c \in CPUs, w \in CPUs, n \in {1, 2} :
          ~(/\ cpu[c].pc \in {"fw_checked", "fw_queued"}
            /\ cpu[c].addr = "a"
            /\ FutexWake(w, "a", n))]_vars

\* C7: a futex_wait that blocked returns only because a futex wake, a signal
\* or the expiry of its timeout made the task Ready.
C7_WaitReturnsForACause ==
    [][\A c \in CPUs :
          (Dispatch(c) /\ tcb[cpu[c].next].resume = "futex_wait")
             => tcb[cpu[c].next].wake_cause \in {"futex", "signal", "timeout"}]_vars

\* C8: wake(addr, n) pops at most n waiters, every popped waiter goes from
\* Interruptible to Ready, and the rest of the queue keeps its order.
WakePost(a, n) ==
    LET before == futex[a]
        popped == Len(before) - Len(futex'[a])
    IN /\ popped <= n
       /\ futex'[a] = SubSeq(before, popped + 1, Len(before))
       /\ \A i \in 1 .. popped :
             /\ tcb[before[i]].task_status = "Interruptible"
             /\ tcb'[before[i]].task_status = "Ready"

C8_WakePopsAtMostN ==
    [][\A c \in CPUs, n \in {1, 2} : FutexWake(c, "a", n) => WakePost("a", n)]_vars

\* C5: in the wait/wake scenario, once A's futex_wait(a, 1) has put A on the
\* wait queue of a while B's futex_wake(a, 1) is still to come, A's wait
\* eventually returns SUCCESS: A is not left blocked forever.
WakeStillToCome == Len(prog[ThreadB]) >= 2

C5_WaiterReturnsSuccess ==
    (InSeq(futex["a"], ThreadA) /\ WakeStillToCome) ~> (obs[ThreadA] = "SUCCESS")

\* C9: requeue(addr1, addr2, n_wake, n_move) wakes at most n_wake waiters of
\* addr1 and moves at most n_move others to addr2; every waiter of either
\* address that is neither woken nor moved is still queued afterwards, also
\* when addr1 = addr2.
RequeuePost(a1, a2, n_wake, n_move) ==
    LET Waiters(fx, a) == {fx[a][i] : i \in 1 .. Len(fx[a])}
        woken == {t \in Waiters(futex, a1) :
                     /\ tcb[t].task_status = "Interruptible"
                     /\ tcb'[t].task_status = "Ready"}
        moved == IF a1 = a2 THEN {}
                 ELSE Waiters(futex', a2) \ Waiters(futex, a2)
    IN /\ Cardinality(woken) <= n_wake
       /\ Cardinality(moved) <= n_move
       /\ \A t \in (Waiters(futex, a1) \cup Waiters(futex, a2)) \ woken :
             t \in Waiters(futex', a1) \cup Waiters(futex', a2)

C9_RequeueKeepsTheRest ==
    [][\A c \in CPUs, a2 \in Addrs, n_wake \in {0, 1}, n_move \in {0, 1} :
          FutexRequeue(c, "a", a2, n_wake, n_move)
              => RequeuePost("a", a2, n_wake, n_move)]_vars

\* C4: after exit_group(tgid) has completed, no task with that tgid is in any
\* runqueue (RT, CFS or Idle, of any hart) or in any wait queue (the
\* interruptible queues and the futex wait queues).
ExitGroupDone(g) ==
    \E u \in Tasks : tcb[u].exists /\ tcb[u].tgid = g /\ tcb[u].task_status = "Zombie"

C4_ExitGroupEmptiesQueues ==
    \A t \in Tasks :
        (tcb[t].exists /\ ExitGroupDone(tcb[t].tgid))
            => /\ \A c \in CPUs : ~find_by_pid(mgr[c], t)
               /\ \A a \in Addrs : ~InSeq(futex[a], t)

\* C10: strict precedence RT > CFS > Idle.  A hart takes a task from its CFS
\* queue only when its RT queues are empty, and from its Idle queue only when
\* its RT and CFS queues are empty; and a CFS task executes on a hart only
\* while no RT task is queued (runnable) on that hart.
RtEmpty(m) == \A p \in RtPrios : m.rt_queues[p] = <<>>

FetchInClassOrder(c) ==
    /\ mgr'[c].cfs_tasks # mgr[c].cfs_tasks => RtEmpty(mgr[c])
    /\ mgr'[c].idle_queue # mgr[c].idle_queue
          => RtEmpty(mgr[c]) /\ mgr[c].cfs_tasks = {}

CfsRunsOnlyWithoutRt(c) ==
    get_sched_class(tcb[cpu[c].current]) = "Cfs" => RtEmpty(mgr[c])

C10_StrictClassPrecedence ==
    [][/\ \A c \in CPUs : FetchLocal(c) => FetchInClassOrder(c)
       /\ \A c \in CPUs, a \in Addrs, v \in {1, 2} :
             UserStore(c, a, v) => CfsRunsOnlyWithoutRt(c)]_vars

\* C11: a running SCHED_FIFO task keeps its CPU across timer ticks.  A task
\* that is Ready, resumes in user code and has run before was taken off its
\* hart by a timer tick alone (it neither blocked nor exited, and the
\* programs never yield); while such a SCHED_FIFO task waits, its hart
\* dispatches another task only if that task has a higher priority.
EffectivePrio(e) == IF get_sched_class(e) = "Rt" THEN e.rt_priority ELSE 0

TickPreempted(t, c) ==
    /\ tcb[t].exists /\ tcb[t].task_status = "Ready"
    /\ tcb[t].resume = "user" /\ tcb[t].exec_start # 0
    /\ tcb[t].last_cpu = c

C11_FifoKeepsCpuAcrossTicks ==
    [][\A c \in CPUs, t \in Tasks :
          (/\ Dispatch(c) /\ cpu[c].next # t
           /\ tcb[t].policy = "Fifo" /\ TickPreempted(t, c))
             => EffectivePrio(tcb[cpu[c].next]) > tcb[t].rt_priority]_vars

\* C12: when a SCHED_RR task that a timer tick took off its hart is
\* dispatched again before it has run for a whole slice (its total runtime
\* is below RR_TIMESLICE_NS), another task of greater or equal priority was
\* dispatched since it stopped.
RanSince(u, t) ==
    /\ u # t /\ tcb[u].exists
    /\ tcb[u].exec_start # 0 /\ tcb[u].exec_start >= tcb[t].exec_start
    /\ EffectivePrio(tcb[u]) >= tcb[t].rt_priority

C12_RoundRobinSlice ==
    [][\A c \in CPUs :
          (/\ Dispatch(c)
           /\ tcb[cpu[c].next].policy = "RoundRobin"
           /\ TickPreempted(cpu[c].next, c)
           /\ tcb[cpu[c].next].sum_exec_runtime < RR_TIMESLICE_NS)
             => \E u \in Tasks : RanSince(u, cpu[c].next)]_vars

\* C13: a CFS task that stays runnable throughout a period of
\* SCHED_LATENCY_NS receives CPU time in it.  A task that a timer tick took
\* off its hart and that sits in a CFS queue has been runnable, and has
\* received no CPU time at all, since the time in its exec_start; so it has
\* not waited there for a whole latency period.
QueuedSincePreempted(t) ==
    /\ get_sched_class(tcb[t]) = "Cfs"
    /\ \E c \in CPUs : TickPreempted(t, c)
    /\ \E c \in CPUs : InCfs(mgr[c], t)
    /\ \A c \in CPUs : cpu[c].current # t /\ cpu[c].next # t

C13_CfsLatency ==
    \A t \in Tasks :
        QueuedSincePreempted(t) => now - tcb[t].exec_start < SCHED_LATENCY_NS

\* C14: for every CFS queue, total_weight equals the sum of the weights of
\* the tasks that are in the queue's ordered map.
RECURSIVE SumOfWeights(_)
SumOfWeights(keys) ==
    IF keys = {} THEN 0
    ELSE LET k == CHOOSE x \in keys : TRUE
         IN tcb[k[2]].weight + SumOfWeights(keys \ {k})

C14_TotalWeightIsSum ==
    \A c \in CPUs : mgr[c].total_weight = SumOfWeights(mgr[c].cfs_tasks)

\* C15: for every CFS queue, nr_running equals the number of tasks stored
\* in the queue's ordered map.
C15_NrRunningIsSize ==
    \A c \in CPUs : mgr[c].cfs_nr = Cardinality(mgr[c].cfs_tasks)

\* A frame the allocator would hand out: on the recycled stack or not yet
\* passed by the cursor.
InFreePool(a, ppn) ==
    InSeq(a.recycled, ppn) \/ (a.current <= ppn /\ ppn < a.end)

\* The live handles on a frame: the trackers kernel code holds and the ones
\* in QUEUE_FRAMES.
LiveHandles(ppn) == held[ppn] + Count(queue_frames, ppn)

\* C16: a frame is never both in the free pool and held by a live handle,
\* and no frame has been handed out while a handle on it was live (so no
\* frame has two live trackers).
C16_FreeOrHeld ==
    \A ppn \in PhysFrames :
        /\ ~(InFreePool(allocator, ppn) /\ LiveHandles(ppn) > 0)
        /\ LiveHandles(ppn) <= 1

\* The frames a step has appended to QUEUE_FRAMES.
NewQueueFrames ==
    SubSeq(queue_frames', Len(queue_frames) + 1, Len(queue_frames'))

\* C17: frames_alloc(k), when it returns Some, returns exactly k frames with
\* contiguous physical page numbers (seen at its caller Hal::share, which
\* puts the frames it got into QUEUE_FRAMES).
C17_FramesAllocContiguous ==
    [][\A pages \in 1 .. MaxPages :
          (VirtioShare(pages) /\ queue_frames' # queue_frames)
             => /\ Len(NewQueueFrames) = pages
                /\ \A i \in 1 .. (pages - 1) :
                      NewQueueFrames[i + 1] = NewQueueFrames[i] + 1]_vars

\* C18: when frame_reserve finds too few frames and the reclaim cascade
\* cannot release the missing ones, the failure goes back to the caller: the
\* kernel does not panic on it.
C18_ReserveFailureReturns ==
    [][\A num \in 1 .. MaxPages :
          FrameReserve(num)
             => panic' # "called Result::unwrap() on an Err value"]_vars

\* A frame that is handed out at the moment: the cursor has passed it and it
\* is not on the recycled stack.
CurrentlyAllocated(a, ppn) ==
    EKernel <= ppn /\ ppn < a.current /\ ~InSeq(a.recycled, ppn)

\* A step that frees frames without allocating any.
FreeingStep ==
    \/ \E ppn \in ImageFrames : DonateImage(ppn)
    \/ \E ppn \in PhysFrames : DropFrame(ppn)
    \/ \E pa \in PhysFrames, pages \in 1 .. MaxPages :
          VirtioUnshare([pa |-> pa, pages |-> pages])

\* C19: in the debug build a frame that is not currently allocated (already
\* free, or never handed out) never enters the free pool through a free.
C19_DebugDetectsEveryBadFree ==
    [][(build.MODE = "debug" /\ FreeingStep)
          => \A ppn \in PhysFrames :
                (InSeq(allocator'.recycled, ppn) /\ ~InSeq(allocator.recycled, ppn))
                   => CurrentlyAllocated(allocator, ppn)]_vars

\* The task's next operation is a system call with a number outside the
\* dispatch table, and the step carries it out.
UnknownSyscallDone(t) ==
    /\ prog[t] # <<>> /\ Head(prog[t]).op = "syscall"
    /\ dispatch_syscall(Head(prog[t]).addr) = "None"
    /\ prog'[t] = Tail(prog[t])

\* C20: a system call with a number outside the dispatch table returns
\* ENOSYS, and SIGSYS is pending on the calling task afterwards.
C20_UnknownSyscall ==
    [][\A t \in Tasks :
          UnknownSyscallDone(t)
             => obs'[t] = "ENOSYS" /\ tcb'[t].sigpending]_vars

\* A task has made such a call: it got ENOSYS and has the signal pending,
\* while another task's call inside the table returned 0 without a signal.
C20_Witness ==
    \E t, u \in Tasks :
        /\ obs[t] = "ENOSYS" /\ tcb[t].sigpending
        /\ obs[u] = "0" /\ ~tcb[u].sigpending

\* The task a step has created.
Born(u) == ~tcb[u].exists /\ tcb'[u].exists

\* C21: the child of a clone with CLONE_THREAD has its parent's tgid, shares
\* its parent's address space, and has a tid from the tid allocator of its
\* parent's thread group (a tid no other task of the allocator has).
C21_ThreadClone ==
    [][\A c \in CPUs, flags \in SUBSET CloneFlags, u \in Tasks :
          ("CLONE_THREAD" \in flags /\ Clone(c, flags) /\ Born(u))
             => LET parent == tcb[cpu[c].current] IN
                /\ tcb'[u].tgid = parent.tgid
                /\ tcb'[u].vm = parent.vm
                /\ tcb'[u].tid_allocator = parent.tid_allocator
                /\ \A w \in Tasks \ {u} :
                      (tcb'[w].exists /\ tcb'[w].tid_allocator = parent.tid_allocator)
                         => tcb'[w].tid # tcb'[u].tid]_vars

\* Task u is queued, sleeping or running somewhere in the next state.
AliveAfter(u) ==
    \/ \E d \in CPUs : find_by_pid(mgr'[d], u)
    \/ \E d \in CPUs : u \in {cpu'[d].current, cpu'[d].pending, cpu'[d].next}
    \/ \E a \in Addrs : InSeq(futex'[a], u)

\* C22: when a task of a thread group with other threads has executed
\* execve, none of the other threads of the group is queued, sleeping or
\* running on any hart.
C22_ExecveEndsOtherThreads ==
    [][\A c \in CPUs, u \in Tasks :
          (/\ Execve(c) /\ u # cpu[c].current
           /\ tcb[u].exists /\ tcb[u].tgid = tcb[cpu[c].current].tgid
           /\ tcb[u].task_status # "Zombie")
             => ~AliveAfter(u)]_vars

\* Thread A has registered a deadline that the clock reaches, and goes on to
\* block.
DeadlineRegistered ==
    \E c \in CPUs :
        /\ cpu[c].current = ThreadA /\ cpu[c].pc = "fw_queued"
        /\ cpu[c].timeout # 0 /\ cpu[c].timeout <= MaxTime + 1

\* C23: a task that has registered a deadline and then blocks becomes Ready
\* once the deadline has expired: a timer tick moves it from Interruptible to
\* Ready and into a ready queue (from where it is dispatched and its wait
\* returns).
C23_DeadlineWakes ==
    DeadlineRegistered
        ~> (tcb[ThreadA].task_status # "Interruptible"
            /\ tcb[ThreadA].wake_cause = "timeout")

\* The changes of state of the lifecycle.  Created is the task before
\* sys_clone has built it; a reaped task is not part of the model.
LifecycleStep(from, to) ==
    <<from, to>> \in {<<"Ready", "Running">>, <<"Running", "Ready">>,
                      <<"Running", "Interruptible">>, <<"Running", "Zombie">>,
                      <<"Interruptible", "Ready">>}

\* C24: every change of a task's status is one of the lifecycle: a new task
\* is Ready; Ready <-> Running, Running -> Interruptible, Running -> Zombie,
\* Interruptible -> Ready; nothing else.
C24_LifecycleOnly ==
    [][\A t \in Tasks :
          /\ Born(t) => tcb'[t].task_status = "Ready"
          /\ (tcb[t].exists /\ tcb'[t].task_status # tcb[t].task_status)
                => LifecycleStep(tcb[t].task_status, tcb'[t].task_status)]_vars

\* C25: a task that suspended or blocked and still sits in a pending slot
\* (its context not yet published by that dispatcher) is in no ready queue
\* and in no interruptible queue of any hart.
C25_PendingIsUnpublished ==
    \A c \in CPUs :
        cpu[c].pending # NoTask
           => \A d \in CPUs : ~find_by_pid(mgr[d], cpu[c].pending)

\* C26: the dispatcher's compare-and-swap of a fetched task's running_on_cpu
\* from TASK_NOT_RUNNING to the hart's id never fails: no hart takes the
\* fatal double-run branch.
C26_CasAlwaysSucceeds ==
    [][\A c \in CPUs : ~DoubleRunPanic(c)]_vars

\* C27: whenever a dispatcher has taken a task out of its pending slot and
\* read its status, the status read is Ready or Interruptible: the
\* unexpected-status panic is never reached.
C27_PendingStatusExpected ==
    \A c \in CPUs :
        cpu[c].pc = "publish" => cpu[c].status \in {"Ready", "Interruptible"}

\* The context of task t is in use or being written back: t runs on a hart,
\* or it is parked in a pending slot that the dispatcher has not taken yet.
ContextInUse(t) ==
    \E d \in CPUs : cpu[d].current = t \/ cpu[d].pending = t

\* C28: a hart goes on to dispatch a fetched task only after it has observed
\* on_cpu false; on_cpu goes from true to false only in the dispatcher of the
\* hart that parked the task, when the task's context has been written back
\* and is in use nowhere; and no hart switches into a task whose context is
\* in use or being saved.
C28_ResumeOnlySavedContext ==
    [][/\ \A c \in CPUs :
             (cpu[c].pc # "cas" /\ cpu'[c].pc = "cas")
                => ~tcb[cpu'[c].next].on_cpu
       /\ \A t \in Tasks :
             (tcb[t].on_cpu /\ ~tcb'[t].on_cpu)
                => /\ \E d \in CPUs : cpu[d].next = t /\ ClearOnCpu(d)
                   /\ ~ContextInUse(t)
       /\ \A c \in CPUs :
             (Dispatch(c) \/ SwitchTo(c)) => ~ContextInUse(cpu[c].next)]_vars

\* C29: every task a hart obtains by work stealing comes from a peer that
\* held at least two tasks, is a task of the CFS class, and is not running:
\* its running_on_cpu is TASK_NOT_RUNNING.  (Every task of the model has an
\* initialised context and the default affinity mask, which allows every
\* hart: nothing in the kernel sources calls set_affinity.)
C29_StolenTaskIsEligible ==
    [][\A c \in CPUs :
          Steal(c)
             => LET t == cpu'[c].next IN
                /\ \E i \in CPUs \ {c} :
                      /\ total_count(mgr[i]) >= 2
                      /\ InCfs(mgr[i], t)
                      /\ mgr'[i] # mgr[i]
                /\ get_sched_class(tcb[t]) = "Cfs"
                /\ tcb[t].running_on_cpu = TASK_NOT_RUNNING]_vars

\* C30: work stealing takes the least urgent task of the victim: no task in
\* the CFS queue the stolen task came from has a higher vruntime key than the
\* stolen task.
C30_StealsHighestVruntime ==
    [][\A c \in CPUs :
          Steal(c)
             => \E i \in CPUs \ {c} :
                   /\ mgr'[i] # mgr[i]
                   /\ \E k \in mgr[i].cfs_tasks :
                         /\ k[2] = cpu'[c].next
                         /\ k \notin mgr'[i].cfs_tasks
                         /\ \A other \in mgr[i].cfs_tasks : other[1] <= k[1]]_vars

\* Hart c takes lock l in this step.
Acquires(c, l) == owner[l] # c /\ owner'[l] = c

\* C31: locks are taken in the order interrupts off, run queue lock, task
\* inner lock and never the other way round: a hart that takes a run queue
\* lock has its interrupts off and holds no task inner lock.
C31_RunqueueBeforeInner ==
    [][\A c \in CPUs, l \in Locks :
          Acquires(c, l) /\ IsRunq(l)
             => ~hart[c].sie /\ ~\E i \in Holds(c) : IsInner(i)]_vars

\* C32: a task inner lock is only taken once the run queue lock has been
\* released: no hart holds a run queue lock and a task inner lock at the
\* same time.
C32_NeverRunqueueAndInner ==
    \A c \in CPUs : ~\E l \in Holds(c), i \in Holds(c) : IsRunq(l) /\ IsInner(i)

\* Hart c spins in Mutex::lock on a lock that is held.
Spins(c) == At(c, {"lock"}) /\ owner[Head(hart[c].path).l] # NoHart
SpinsOn(c) == owner[Head(hart[c].path).l]

\* C33: the spin locks never deadlock: in no reachable state does every hart
\* of some set spin on a lock (run queue, processor, task inner, futex table
\* or timeout queue) that a hart of the set holds.
C33_NoDeadlock ==
    ~\E S \in (SUBSET CPUs) \ {{}} : \A c \in S : Spins(c) /\ SpinsOn(c) \in S

\* C34: a hart takes the run queue lock of another CPU only with try_lock,
\* never with the blocking lock.
C34_OtherRunqueueByTryLock ==
    [][\A c \in CPUs : \A d \in CPUs \ {c} :
          Acquires(c, TASK_MANAGERS(d)) => At(c, {"try_lock"})]_vars

\* C35: interrupts are disabled on a hart whenever the hart holds a run
\* queue lock or a task inner lock.
C35_LocksHeldWithInterruptsOff ==
    \A c \in CPUs :
       (\E l \in Holds(c) : IsRunq(l) \/ IsInner(l)) => ~hart[c].sie

\* A hart that had its interrupts enabled in the kernel (the idle turn of
\* run_tasks), took a timer interrupt there and now holds its run queue
\* lock and the inner lock of a task it wakes.
C35_Witness ==
    \E c \in CPUs :
       /\ hart[c].path # <<>>
       /\ hart[c].path[Len(hart[c].path)] = sret("sched")[1]
       /\ \E l \in Holds(c), i \in Holds(c) : IsRunq(l) /\ IsInner(i)
       /\ ~hart[c].sie

\* ------------------------------- wake_interruptible against an idle peer
\* The global wake_interruptible step by step, on a hart whose running task
\* (a child in do_exit) wakes initproc, while the other hart turns in
\* run_tasks with nothing to run.  Each hart is at a place of its function:
\* the waker at the head of the retry loop ("loop"), at the head of the for
\* loop ("for", with the index i of the manager that comes next), inside the try_lock guard ("locked"), or back
\* from the function ("woken": try_wake_interruptible said Ok, "absent": a
\* pass ended with all_checked); the idle hart before the lock of its own
\* manager in fetch_task ("idle"), inside it ("fetch"), at the head of the
\* stealing loop ("steal"), inside a stolen guard ("stealing"), or on its
\* way to the task it took ("switch").
WakerTask == INITPROC + 1

RECURSIVE AddToEach(_, _, _)
AddToEach(S, mg, tc) ==
    IF S = {} THEN <<mg, tc>>
    ELSE LET c == CHOOSE x \in S : \A y \in S : x <= y
             r == AddTo(c, INITPROC, mg, tc)
         IN AddToEach(S \ {c}, r[1], r[2])

\* Where a blocked task can be when it is woken: <<the managers whose ready
\* queues hold it, the managers whose interruptible_queue holds it>>.  It is
\* in no queue while the hart it blocked on has not published it, and in a
\* ready queue when an earlier wake raced with its last dispatch.
WokenAt ==
    {<<{}, {}>>, <<{MAX_CPU_NUM - 1}, {}>>,
     <<{MAX_CPU_NUM - 1}, {MAX_CPU_NUM - 1}>>}
    \cup {<<{}, {c}>> : c \in CPUs}

\* The child runs on hart w and has just set initproc, which was
\* Interruptible, Ready under its inner lock (do_exit, lines 143-151).
InitWakeRace ==
    \E w \in CPUs, at \in WokenAt :
       LET tc0 == [t \in Tasks |->
                      IF t = INITPROC
                      THEN NewTcb(INITPROC, NoTask, FALSE, FALSE)
                      ELSE IF t = WakerTask
                      THEN [NewTcb(WakerTask, INITPROC, FALSE, FALSE)
                               EXCEPT !.tid = 2]
                      ELSE Unborn]
           r == AddToEach(at[1], [c \in CPUs |-> NewManager], tc0)
       IN /\ mgr = [c \in CPUs |->
                       IF c \in at[2]
                       THEN [r[1][c] EXCEPT
                                !.interruptible_queue = <<INITPROC>>]
                       ELSE r[1][c]]
          /\ tcb = Run(r[2], WakerTask, w, 1)
          /\ cpu = [c \in CPUs |->
                       IF c = w
                       THEN [NewProcessor EXCEPT !.pc = "user",
                                                 !.current = WakerTask]
                       ELSE NewProcessor]
          /\ hart = [c \in CPUs |->
                        [pc |-> IF c = w THEN "loop" ELSE "idle", i |-> 0,
                         all_checked |-> TRUE]]
          /\ owner = [l \in Locks |-> NoHart]
          /\ futex = [a \in Addrs |-> <<>>]
          /\ word = [a \in Addrs |-> 0]
          /\ timeouts = {}
          /\ now = 1
          /\ obs = [t \in Tasks |-> ""]
          /\ panic = ""
          /\ prog = [t \in Tasks |-> <<>>]
          /\ InitFrameAllocator /\ build = ReleaseBuild
          /\ active_tracker = [c \in CPUs |-> {}]
          /\ cleaned = {}
          /\ bitmap_allocator = bitmap_new(FALSE)

\* wake_interruptible, lines 529-530: a pass starts with all_checked = true.
WakeRetry(c) ==
    /\ hart[c].pc = "loop"
    /\ hart' = [hart EXCEPT ![c].pc = "for", ![c].i = 0,
                            ![c].all_checked = TRUE]
    /\ UNCHANGED <<owner, datavars>>

\* wake_interruptible, line 534: manager.try_lock(); a held lock clears
\* all_checked (line 540) and the loop goes on with the next manager.
WakeTryLock(c) ==
    /\ hart[c].pc = "for" /\ hart[c].i < MAX_CPU_NUM
    /\ LET l == TASK_MANAGERS(hart[c].i) IN
       IF owner[l] = NoHart
       THEN /\ owner' = [owner EXCEPT ![l] = c]
            /\ hart' = [hart EXCEPT ![c].pc = "locked"]
       ELSE /\ owner' = owner
            /\ hart' = [hart EXCEPT ![c].i = @ + 1, ![c].all_checked = FALSE]
    /\ UNCHANGED datavars

\* wake_interruptible, lines 535-537: try_wake_interruptible under the guard;
\* Ok returns, Err drops the guard and goes on.
WakeTry(c) ==
    /\ hart[c].pc = "locked"
    /\ LET r == TryWakeOn(hart[c].i, INITPROC, mgr, tcb) IN
       /\ mgr' = r.mg
       /\ tcb' = r.tc
       /\ hart' = [hart EXCEPT ![c].pc = IF r.ok THEN "woken" ELSE "for",
                               ![c].i = IF r.ok THEN @ ELSE @ + 1]
    /\ owner' = [owner EXCEPT ![TASK_MANAGERS(hart[c].i)] = NoHart]
    /\ UNCHANGED <<cpu, futex, word, timeouts, now, prog, obs, panic, memvars,
                   oomvars, bitmap_allocator>>

\* wake_interruptible, lines 545-550: after the for loop all_checked returns,
\* anything else goes back to the head of the retry loop.
WakeEndPass(c) ==
    /\ hart[c].pc = "for" /\ hart[c].i = MAX_CPU_NUM
    /\ hart' = IF hart[c].all_checked
               THEN [hart EXCEPT ![c].pc = "absent"]
               ELSE [hart EXCEPT ![c].pc = "loop"]
    /\ UNCHANGED <<owner, datavars>>

\* fetch_task, line 403: TASK_MANAGERS[cpu_id].lock() spins while the lock is
\* held.
IdleLock(c) ==
    /\ hart[c].pc = "idle"
    /\ owner[TASK_MANAGERS(c)] = NoHart
    /\ owner' = [owner EXCEPT ![TASK_MANAGERS(c)] = c]
    /\ hart' = [hart EXCEPT ![c].pc = "fetch"]
    /\ UNCHANGED datavars

\* fetch_task, lines 403-406: fetch() under the guard, which the end of the
\* statement drops.
IdleFetch(c) ==
    /\ hart[c].pc = "fetch"
    /\ LET r == ManagerFetch(mgr[c]) IN
       /\ mgr' = [mgr EXCEPT ![c] = r.m]
       /\ cpu' = [cpu EXCEPT ![c].next = r.task]
       /\ hart' = [hart EXCEPT
                      ![c].pc = IF r.task # NoTask THEN "switch" ELSE "steal",
                      ![c].i = 0]
    /\ owner' = [owner EXCEPT ![TASK_MANAGERS(c)] = NoHart]
    /\ UNCHANGED <<tcb, futex, word, timeouts, now, prog, obs, panic, memvars,
                   oomvars, bitmap_allocator>>

\* fetch_task, lines 410-415: the stealing loop passes over its own manager
\* and over a peer whose try_lock fails.
IdleStealTry(c) ==
    /\ hart[c].pc = "steal" /\ hart[c].i < MAX_CPU_NUM
    /\ LET l == TASK_MANAGERS(hart[c].i) IN
       IF hart[c].i # c /\ owner[l] = NoHart
       THEN /\ owner' = [owner EXCEPT ![l] = c]
            /\ hart' = [hart EXCEPT ![c].pc = "stealing"]
       ELSE /\ owner' = owner
            /\ hart' = [hart EXCEPT ![c].i = @ + 1]
    /\ UNCHANGED datavars

\* fetch_task, lines 417-425: a peer with two tasks or more gives a CFS task.
IdleSteal(c) ==
    /\ hart[c].pc = "stealing"
    /\ LET i == hart[c].i
           r == steal_from_cfs(mgr[i])
           took == total_count(mgr[i]) >= 2 /\ r.task # NoTask
       IN /\ mgr' = IF took THEN [mgr EXCEPT ![i] = r.m] ELSE mgr
          /\ cpu' = IF took THEN [cpu EXCEPT ![c].next = r.task] ELSE cpu
          /\ hart' = [hart EXCEPT ![c].pc = IF took THEN "switch" ELSE "steal",
                                  ![c].i = IF took THEN @ ELSE @ + 1]
          /\ owner' = [owner EXCEPT ![TASK_MANAGERS(i)] = NoHart]
    /\ UNCHANGED <<tcb, futex, word, timeouts, now, prog, obs, panic, memvars,
                   oomvars, bitmap_allocator>>

\* fetch_task, line 429, and run_tasks, lines 234-244: with no task the hart
\* enables its interrupts and starts the loop again.
IdleTurn(c) ==
    /\ hart[c].pc = "steal" /\ hart[c].i = MAX_CPU_NUM
    /\ hart' = [hart EXCEPT ![c].pc = "idle", ![c].i = 0]
    /\ UNCHANGED <<owner, datavars>>

HartWakeRace(c) ==
    \/ WakeRetry(c) \/ WakeTryLock(c) \/ WakeTry(c) \/ WakeEndPass(c)
    \/ IdleLock(c) \/ IdleFetch(c) \/ IdleStealTry(c) \/ IdleSteal(c)
    \/ IdleTurn(c)

NextWakeRace == \E c \in CPUs : HartWakeRace(c)

\* Every hart keeps executing.
SpecWakeRace ==
    InitWakeRace /\ [][NextWakeRace]_vars
    /\ \A c \in CPUs : WF_vars(HartWakeRace(c))

\* C36: a wake that races with the run queue lock of another CPU makes
\* progress: wake_interruptible returns, and it returns without having
\* queued the task only after a pass over all managers in which no try_lock
\* failed.
C36_WakeTerminates ==
    /\ <>(\E c \in CPUs : hart[c].pc \in {"woken", "absent"})
    /\ [](\A c \in CPUs : hart[c].pc = "absent" => hart[c].all_checked)

\* C37: waking a task that has already been woken does nothing: when no
\* task a futex wake calls wake_interruptible for is in an interruptible
\* queue, the wake leaves every ready queue and every interruptible queue as
\* it was.
C37_WakeOfWokenTaskDoesNothing ==
    [][\A c \in CPUs, a \in Addrs, n \in {1, 2} :
          (/\ FutexWake(c, a, n)
           /\ \A t \in Tasks :
                 InSeq(futex[a], t)
                    => \A d \in CPUs : ~InInterruptible(mgr[d], t))
             => mgr' = mgr]_vars

\* ------------------------------------------------- system-wide OOM reclaim
\* The build with the oom_handler feature: fetch marks the task it hands out
\* in the active_tracker of the manager it came from, and do_oom walks the
\* managers.  What a clean of a task's address space releases is an input of
\* do_oom (released[t] pages); cleaned records what the walk cleaned, how,
\* and in which manager.
MaxReq == 2
MaxRelease == 1

\* The tasks of the CFS queue in the order cfs_rq.iter() yields them.
RECURSIVE CfsOrder(_)
CfsOrder(m) ==
    IF m.cfs_tasks = {} THEN <<>>
    ELSE <<CfsPickNext(m).task>> \o CfsOrder(CfsPickNext(m).m)

\* One for loop of do_oom_local over a queue, with its filter on
\* check_active and its break: [released, cleaned]
RECURSIVE CleanEach(_, _, _, _, _, _)
CleanEach(queue, active, req, released, clean, acc) ==
    IF queue = <<>> THEN acc
    ELSE IF Head(queue) \notin active
    THEN CleanEach(Tail(queue), active, req, released, clean, acc)
    ELSE LET t == Head(queue)
             next == IF released[t] > 0
                     THEN [released |-> acc.released + released[t],
                           cleaned |-> acc.cleaned
                                          \cup {[task |-> t, clean |-> clean]}]
                     ELSE acc
         IN IF next.released >= req THEN next
            ELSE CleanEach(Tail(queue), active, req, released, clean, next)

\* TaskManager::do_oom_local(req) with the manager's active_tracker:
\* [released, cleaned, active]
do_oom_local(m, active, req, released) ==
    LET deep == CleanEach(m.interruptible_queue, active, req, released, "deep",
                          [released |-> 0, cleaned |-> {}])
        all == IF deep.released >= req THEN deep
               ELSE CleanEach(CfsOrder(m), active, req, released, "shallow",
                              deep)
    IN [released |-> all.released, cleaned |-> all.cleaned,
        active |-> active \ {x.task : x \in all.cleaned}]

\* do_oom(req), from manager i on with total_released pages so far:
\* [active_tracker, cleaned]
RECURSIVE do_oom(_, _, _, _, _, _)
do_oom(i, req, total_released, trackers, released, acc) ==
    IF i = MAX_CPU_NUM \/ total_released >= req
    THEN [active_tracker |-> trackers, cleaned |-> acc]
    ELSE LET r == do_oom_local(mgr[i], trackers[i], req - total_released,
                               released)
         IN do_oom(i + 1, req, total_released + r.released,
                   [trackers EXCEPT ![i] = r.active], released,
                   acc \cup {[task |-> x.task, clean |-> x.clean, cpu |-> i] :
                                x \in r.cleaned})

InitOom ==
    /\ InitScheduler /\ InitFrameAllocator /\ InitOther
    /\ build = [ReleaseBuild EXCEPT !.oom_handler = TRUE]
    /\ prog = [t \in Tasks |-> <<>>]

\* run_tasks with a task from the hart's own manager: fetch() marks it
\* active there (lines 137-150) and the task runs.
OomFetch(c) ==
    /\ cpu[c].current = NoTask
    /\ LET r == ManagerFetch(mgr[c]) IN
       /\ r.task # NoTask
       /\ mgr' = [mgr EXCEPT ![c] = r.m]
       /\ active_tracker' = [active_tracker EXCEPT ![c] = @ \cup {r.task}]
       /\ tcb' = Run(tcb, r.task, c, now)
       /\ cpu' = [cpu EXCEPT ![c].current = r.task, ![c].pc = "user"]
    /\ UNCHANGED <<futex, word, timeouts, now, prog, obs, panic, memvars,
                   lockvars, cleaned, bitmap_allocator>>

\* run_tasks with a stolen task: fetch_task marks it active in the manager
\* of the peer it was stolen from (lines 417-423).
OomSteal(c) ==
    /\ cpu[c].current = NoTask
    /\ ManagerFetch(mgr[c]).task = NoTask
    /\ \E i \in CPUs \ {c} :
          /\ total_count(mgr[i]) >= 2
          /\ steal_from_cfs(mgr[i]).task # NoTask
          /\ \A j \in CPUs \ {c} :
                j < i => ~(/\ total_count(mgr[j]) >= 2
                           /\ steal_from_cfs(mgr[j]).task # NoTask)
          /\ LET r == steal_from_cfs(mgr[i]) IN
             /\ mgr' = [mgr EXCEPT ![i] = r.m]
             /\ active_tracker' = [active_tracker EXCEPT ![i] = @ \cup {r.task}]
             /\ tcb' = Run(tcb, r.task, c, now)
             /\ cpu' = [cpu EXCEPT ![c].current = r.task, ![c].pc = "user"]
    /\ UNCHANGED <<futex, word, timeouts, now, prog, obs, panic, memvars,
                   lockvars, cleaned, bitmap_allocator>>

\* The running task leaves the hart.
OffCpu(tc, t, status) ==
    [tc EXCEPT ![t].task_status = status,
               ![t].running_on_cpu = TASK_NOT_RUNNING, ![t].on_cpu = FALSE]

\* suspend_current_and_run_next and the turn of run_tasks that puts the
\* task back on the ready queue of its hart.
OomYield(c) ==
    /\ cpu[c].current # NoTask
    /\ LET t == cpu[c].current
           r == AddTo(c, t, mgr, OffCpu(tcb, t, "Ready"))
       IN mgr' = r[1] /\ tcb' = r[2]
    /\ cpu' = [cpu EXCEPT ![c].current = NoTask, ![c].pc = "loop"]
    /\ UNCHANGED <<futex, word, timeouts, now, prog, obs, panic, memvars,
                   othervars>>
    /\ Bounded'

\* block_current_and_run_next and the turn of run_tasks that puts the task on
\* the interruptible queue of its hart.
OomSleep(c) ==
    /\ cpu[c].current # NoTask
    /\ mgr' = [mgr EXCEPT ![c].interruptible_queue = Append(@, cpu[c].current)]
    /\ tcb' = OffCpu(tcb, cpu[c].current, "Interruptible")
    /\ cpu' = [cpu EXCEPT ![c].current = NoTask, ![c].pc = "loop"]
    /\ UNCHANGED <<futex, word, timeouts, now, prog, obs, panic, memvars,
                   othervars>>

\* sys_clone of a process by the running task: add_task on its hart.
OomClone(c) ==
    /\ cpu[c].current # NoTask
    /\ \E u \in Tasks :
          /\ ~tcb[u].exists /\ \A w \in Tasks : w < u => tcb[w].exists
          /\ LET child == [NewTcb(u, cpu[c].current, TRUE, FALSE)
                              EXCEPT !.vm = u, !.tid_allocator = u]
                 r == AddTo(c, u, mgr, [tcb EXCEPT ![u] = child])
             IN mgr' = r[1] /\ tcb' = r[2]
    /\ UNCHANGED <<cpu, futex, word, timeouts, now, prog, obs, panic, memvars,
                   othervars>>
    /\ Bounded'

\* do_oom(req), the third step of oom_handler, called by the task that runs
\* on hart c.
DoOom(c, req) ==
    /\ cpu[c].current # NoTask
    /\ \E released \in [Tasks -> 0 .. MaxRelease] :
          LET o == do_oom(0, req, 0, active_tracker, released, {}) IN
          /\ active_tracker' = o.active_tracker
          /\ cleaned' = o.cleaned
    /\ UNCHANGED <<tcb, mgr, cpu, futex, word, timeouts, now, prog, obs, panic,
                   memvars, lockvars, bitmap_allocator>>

NextOom ==
    \/ \E c \in CPUs : OomFetch(c)
    \/ \E c \in CPUs : OomSteal(c)
    \/ \E c \in CPUs : OomYield(c)
    \/ \E c \in CPUs : OomSleep(c)
    \/ \E c \in CPUs : OomClone(c)
    \/ \E c \in CPUs, req \in 1 .. MaxReq : DoOom(c, req)

SpecOom == InitOom /\ [][NextOom]_vars

\* C38: the system-wide reclaim never cleans a task that is marked active:
\* every task do_oom cleans was not marked in the active_tracker of the
\* manager it was found in when the walk began.
C38_ActiveTaskNotCleaned ==
    [][\A c \in CPUs, req \in 1 .. MaxReq :
          DoOom(c, req)
             => \A x \in cleaned' : x.task \notin active_tracker[x.cpu]]_vars

\* ------------------------------------------------ the RT run queue by itself
\* RtRunQueue::dequeue
RtDequeue(m, t, e) ==
    LET prio == Min(e.rt_priority, MAX_RT_PRIO) IN
    IF prio = 0 \/ ~InSeq(m.rt_queues[prio], t) THEN m
    ELSE LET pos == CHOOSE k \in 1 .. Len(m.rt_queues[prio]) :
                       /\ m.rt_queues[prio][k] = t
                       /\ \A j \in 1 .. (k - 1) : m.rt_queues[prio][j] # t
             queue == SubSeq(m.rt_queues[prio], 1, pos - 1)
                      \o SubSeq(m.rt_queues[prio], pos + 1,
                                Len(m.rt_queues[prio]))
         IN [m EXCEPT !.rt_queues[prio] = queue,
                      !.rt_nr = SatSub(@, 1),
                      !.rt_bitmap = IF queue = <<>> THEN @ \ {prio} ELSE @]

\* RtRunQueue::requeue_rr
requeue_rr(m, t, e) ==
    LET prio == Min(e.rt_priority, MAX_RT_PRIO) IN
    IF prio = 0 THEN m
    ELSE [m EXCEPT !.rt_queues[prio] = Append(@, t),
                   !.rt_bitmap = @ \cup {prio}]

\* The operations of the RT run queue of each CPU, called with any task that
\* is in no RT queue (enqueue, requeue_rr) or with any task at all (dequeue)
\* and with any rt_priority its entity can hold at that moment.
InitRtQueue == InitKernel /\ prog = [t \in Tasks |-> <<>>]

InNoRtQueue(t) == \A c \in CPUs : ~InRt(mgr[c], t)

RtqEnqueue(c, t, prio) ==
    /\ InNoRtQueue(t)
    /\ mgr' = [mgr EXCEPT ![c] = RtEnqueue(@, t, [rt_priority |-> prio])]
    /\ UNCHANGED <<tcb, cpu, futex, word, timeouts, now, prog, obs, panic,
                   memvars, othervars>>

RtqDequeue(c, t, prio) ==
    /\ mgr' = [mgr EXCEPT ![c] = RtDequeue(@, t, [rt_priority |-> prio])]
    /\ UNCHANGED <<tcb, cpu, futex, word, timeouts, now, prog, obs, panic,
                   memvars, othervars>>

RtqPickNext(c) ==
    /\ mgr' = [mgr EXCEPT ![c] = RtPickNext(@).m]
    /\ UNCHANGED <<tcb, cpu, futex, word, timeouts, now, prog, obs, panic,
                   memvars, othervars>>

RtqRequeueRr(c, t, prio) ==
    /\ InNoRtQueue(t)
    /\ mgr' = [mgr EXCEPT ![c] = requeue_rr(@, t, [rt_priority |-> prio])]
    /\ UNCHANGED <<tcb, cpu, futex, word, timeouts, now, prog, obs, panic,
                   memvars, othervars>>

NextRtQueue ==
    \/ \E c \in CPUs, t \in Tasks, prio \in RtPrios \cup {0} :
          RtqEnqueue(c, t, prio)
    \/ \E c \in CPUs, t \in Tasks, prio \in RtPrios \cup {0} :
          RtqDequeue(c, t, prio)
    \/ \E c \in CPUs : RtqPickNext(c)
    \/ \E c \in CPUs, t \in Tasks, prio \in RtPrios \cup {0} :
          RtqRequeueRr(c, t, prio)

SpecRtQueue == InitRtQueue /\ [][NextRtQueue]_vars

\* C39: in every RT run queue the bitmap has bit p set exactly when the FIFO
\* of priority p holds a task, and nr_running is the number of tasks in all
\* the FIFOs together.
C39_RtBitmapAndCount ==
    \A c \in CPUs :
       /\ \A p \in RtPrios : p \in mgr[c].rt_bitmap <=> mgr[c].rt_queues[p] # <<>>
       /\ mgr[c].rt_nr = Len(mgr[c].rt_queues[10]) + Len(mgr[c].rt_queues[50])

\* ------------------------------------------ the bitmap allocator by itself
\* The ranges the allocator is initialised with (one word with padding bits,
\* two words with padding bits), the frame counts asked of alloc_contiguous
\* and the frames handed to dealloc_frame.
StartPpn == 4096
Ranges == {<<StartPpn, StartPpn + 3>>,
           <<StartPpn, StartPpn + BITS_PER_WORD + 2>>}
Counts == {0, 1, 2, BITS_PER_WORD}
Freed == {StartPpn + k : k \in {0, 1, 2, BITS_PER_WORD}}
MaxWrap == 1

InitBitmap ==
    /\ InitScheduler /\ InitFrameAllocator /\ build = ReleaseBuild
    /\ hart = [c \in CPUs |-> NewHart]
    /\ owner = [l \in Locks |-> NoHart]
    /\ active_tracker = [c \in CPUs |-> {}]
    /\ cleaned = {}
    /\ \E debug_assertions \in BOOLEAN :
          bitmap_allocator = bitmap_new(debug_assertions)
    /\ prog = [t \in Tasks |-> <<>>]

\* init(start, end), once, on the allocator new() made.
BitmapInit(start, end) ==
    /\ bitmap_allocator.msg = "" /\ bitmap_allocator.bitmap = <<>>
    /\ bitmap_allocator' = bitmap_init(bitmap_allocator, start, end)
    /\ UNCHANGED <<tcb, mgr, cpu, futex, word, timeouts, now, prog, obs, panic,
                   memvars, lockvars, oomvars>>

BitmapAllocFrame ==
    /\ bitmap_allocator.msg = ""
    /\ bitmap_allocator' = alloc_frame(bitmap_allocator).a
    /\ UNCHANGED <<tcb, mgr, cpu, futex, word, timeouts, now, prog, obs, panic,
                   memvars, lockvars, oomvars>>

BitmapAllocContiguous(count) ==
    /\ bitmap_allocator.msg = ""
    /\ bitmap_allocator' = alloc_contiguous(bitmap_allocator, count).a
    /\ UNCHANGED <<tcb, mgr, cpu, futex, word, timeouts, now, prog, obs, panic,
                   memvars, lockvars, oomvars>>

\* dealloc_frame(ppn) with any ppn; the count may wrap MaxWrap below zero.
BitmapDeallocFrame(ppn) ==
    /\ bitmap_allocator.msg = ""
    /\ bitmap_allocator' = dealloc_frame(bitmap_allocator, ppn)
    /\ bitmap_allocator'.allocated_count >= -MaxWrap
    /\ UNCHANGED <<tcb, mgr, cpu, futex, word, timeouts, now, prog, obs, panic,
                   memvars, lockvars, oomvars>>

NextBitmap ==
    \/ \E r \in Ranges : BitmapInit(r[1], r[2])
    \/ BitmapAllocFrame
    \/ \E count \in Counts : BitmapAllocContiguous(count)
    \/ \E ppn \in Freed : BitmapDeallocFrame(ppn)

SpecBitmap == InitBitmap /\ [][NextBitmap]_vars

\* C40: allocated_frames() is the number of frames of the managed range for
\* which is_allocated is true.
C40_CountMatchesBitmap ==
    LET a == bitmap_allocator IN
    allocated_frames(a)
       = Cardinality({ppn \in a.start_ppn .. (a.start_ppn + a.total_frames - 1) :
                         is_allocated(a, ppn)})
====
